---------------------------- MODULE Spec2Model ----------------------------
(***************************************************************************)
(* Model of the invoice text extraction of tracker/utils:                  *)
(*   pdf_text_extractor.py  parse_invoice_data, extract_from_bytes         *)
(* A text is a sequence of characters: an ASCII character is a            *)
(* one-character string, a character outside ASCII is written by its code  *)
(* point ("U+0663").  The regular expressions of the source are kept as    *)
(* data (trees of records) and run by a backtracking matcher with the      *)
(* priority order of Python's `re`, so that each pattern below can be read *)
(* against the pattern in the source.                                      *)
(***************************************************************************)
EXTENDS Integers, Sequences, FiniteSets, TLC

(***************************************************************************)
(* Characters                                                              *)
(***************************************************************************)
UpperSeq == << "A","B","C","D","E","F","G","H","I","J","K","L","M",
               "N","O","P","Q","R","S","T","U","V","W","X","Y","Z" >>
LowerSeq == << "a","b","c","d","e","f","g","h","i","j","k","l","m",
               "n","o","p","q","r","s","t","u","v","w","x","y","z" >>
DigitSeq == << "0","1","2","3","4","5","6","7","8","9" >>
\* the Arabic-Indic digits 0 to 9: decimal digits outside ASCII, which \d,
\* \w, float() and Decimal() of Python 3 take as digits and [0-9] does not
ArabicIndicSeq == << "U+0660","U+0661","U+0662","U+0663","U+0664",
                     "U+0665","U+0666","U+0667","U+0668","U+0669" >>

\* F applied to v: v is named once inside F
LetIn(v, F(_)) == F(v)

Range(f) == { f[x] : x \in DOMAIN f }

UpperCh == Range(UpperSeq)
LowerCh == Range(LowerSeq)
DigitCh == Range(DigitSeq)
ArabicIndicCh  == Range(ArabicIndicSeq)
UnicodeDigitCh == DigitCh \cup ArabicIndicCh
AlphaCh == UpperCh \cup LowerCh
WordCh  == AlphaCh \cup UnicodeDigitCh \cup {"_"}
SpaceCh == {" ", "\n", "\t", "\r"}
NL      == "\n"

LowerMap == [ c \in UpperCh |-> LowerSeq[CHOOSE i \in 1..26 : UpperSeq[i] = c] ]
UpperMap == [ c \in LowerCh |-> UpperSeq[CHOOSE i \in 1..26 : LowerSeq[i] = c] ]

\* str.lower / str.upper on one character
LowerC(c) == IF c \in UpperCh THEN LowerMap[c] ELSE c
UpperC(c) == IF c \in LowerCh THEN UpperMap[c] ELSE c

\* str.lower(), str.upper()
StrLower(s) == [ i \in 1..Len(s) |-> LowerC(s[i]) ]
StrUpper(s) == [ i \in 1..Len(s) |-> UpperC(s[i]) ]

\* s[a:b] with 1-based inclusive start a and exclusive end b
Slice(s, a, b) == IF b <= a THEN << >> ELSE SubSeq(s, a, b - 1)

RECURSIVE LStripFrom(_, _)
LStripFrom(s, i) ==
  IF i > Len(s) THEN i
  ELSE IF s[i] \in SpaceCh THEN LStripFrom(s, i + 1) ELSE i

RECURSIVE RStripFrom(_, _)
RStripFrom(s, j) ==
  IF j < 1 THEN j
  ELSE IF s[j] \in SpaceCh THEN RStripFrom(s, j - 1) ELSE j

\* str.strip()
Strip(s) ==
  LET a == LStripFrom(s, 1)
      b == RStripFrom(s, Len(s))
  IN  IF a > b THEN << >> ELSE SubSeq(s, a, b)

\* str.split(sep) for a one-character separator: the pieces, empty ones kept
RECURSIVE SplitOn(_, _)
SplitOn(s, sep) ==
  IF \A i \in 1..Len(s) : s[i] # sep THEN << s >>
  ELSE LET k == CHOOSE i \in 1..Len(s) :
                   s[i] = sep /\ \A j \in 1..(i - 1) : s[j] # sep
       IN  << Slice(s, 1, k) >> \o SplitOn(Slice(s, k + 1, Len(s) + 1), sep)

\* sep.join(parts)
RECURSIVE Join(_, _)
Join(parts, sep) ==
  IF Len(parts) = 0 THEN << >>
  ELSE IF Len(parts) = 1 THEN parts[1]
  ELSE parts[1] \o sep \o Join(Tail(parts), sep)

\* `sub in s` for strings
Contains(s, sub) ==
  \E i \in 1..(Len(s) - Len(sub) + 1) :
     \A j \in 1..Len(sub) : s[i + j - 1] = sub[j]

(***************************************************************************)
(* Regular expressions as data                                             *)
(***************************************************************************)
\* "no upper limit" of a repetition
Inf == 0 - 1

Ch(c)        == [t |-> "ch", c |-> c]
Set(S)       == [t |-> "set", s |-> S, neg |-> FALSE]
NotSet(S)    == [t |-> "set", s |-> S, neg |-> TRUE]
Cat(xs)      == [t |-> "cat", xs |-> xs]
Alt(xs)      == [t |-> "alt", xs |-> xs]
Rep(x, a, b) == [t |-> "rep", x |-> x, lo |-> a, hi |-> b, lazy |-> FALSE]
RepLazy(x, a, b) == [t |-> "rep", x |-> x, lo |-> a, hi |-> b, lazy |-> TRUE]
Star(x)      == Rep(x, 0, Inf)
Plus(x)      == Rep(x, 1, Inf)
Opt(x)       == Rep(x, 0, 1)
Grp(x)       == [t |-> "grp", x |-> x]
Look(x)      == [t |-> "look", x |-> x, neg |-> FALSE]
NotLook(x)   == [t |-> "look", x |-> x, neg |-> TRUE]
Bol          == [t |-> "bol"]
Eol          == [t |-> "eol"]
WordB        == [t |-> "wordb"]
\* the characters of a string literal
Chars(s)     == [ i \in 1..Len(s) |-> SubSeq(s, i, i) ]
\* a literal word of a pattern
Lit(s)       == Cat([ i \in 1..Len(s) |-> Ch(SubSeq(s, i, i)) ])

AnyS   == Set(SpaceCh)                  \* \s
AnyD   == Set(UnicodeDigitCh)           \* \d
AnyW   == Set(WordCh)                   \* \w
Dot    == NotSet({NL})                  \* .

\* flags: i = re.I, m = re.MULTILINE
FlagsI  == [i |-> TRUE,  m |-> FALSE]
FlagsIM == [i |-> TRUE,  m |-> TRUE]
Flags0  == [i |-> FALSE, m |-> FALSE]

NoMatch == [ok |-> FALSE, start |-> 0, end |-> 0, gs |-> 0, ge |-> 0]

CharIn(c, S, fl) ==
  \/ c \in S
  \/ fl.i /\ (LowerC(c) \in S \/ UpperC(c) \in S)

IsWordAt(s, i) == i >= 1 /\ i <= Len(s) /\ s[i] \in WordCh

\* one character against a "ch" or "set" node
OneChar(x, c, fl) ==
  IF x.t = "ch" THEN c = x.c \/ (fl.i /\ LowerC(c) = LowerC(x.c))
  ELSE CharIn(c, x.s, fl) # x.neg

\* the first position in lo..hi whose character does not match x, or
\* hi + 1 (by halving, to keep the evaluation shallow)
RECURSIVE FirstOther(_, _, _, _, _)
FirstOther(x, s, lo, hi, fl) ==
  IF lo > hi THEN hi + 1
  ELSE IF lo = hi THEN (IF OneChar(x, s[lo], fl) THEN hi + 1 ELSE lo)
  ELSE LET mid == (lo + hi) \div 2
           a   == FirstOther(x, s, lo, mid, fl)
       IN  IF a <= mid THEN a ELSE FirstOther(x, s, mid + 1, hi, fl)

\* the end of the longest run of at most n characters matching x from i
RunEnd(x, s, i, fl, n) ==
  FirstOther(x, s, i, IF i + n - 1 < Len(s) THEN i + n - 1 ELSE Len(s), fl)

\* The matcher: k is the sequence of nodes still to match from position i
\* (the continuation); the first alternative that lets the whole of k match
\* wins, as in a backtracking engine.  gs, ge: group 1 as found so far.
\* A repetition of a one-character node is matched as a run: its possible
\* ends are tried longest first (greedy) or shortest first (lazy), which is
\* the order backtracking tries them in.
RECURSIVE M(_, _, _, _, _, _)
\* the ends first, first + step, ..., first + n * step tried in that order
RECURSIVE TryEnds(_, _, _, _, _, _, _, _, _)
TryEnds(r, s, first, step, lo, hi, fl, gs, ge) ==
  IF lo > hi THEN NoMatch
  ELSE IF lo = hi THEN M(r, s, first + lo * step, fl, gs, ge)
  ELSE LET mid == (lo + hi) \div 2
           a   == TryEnds(r, s, first, step, lo, mid, fl, gs, ge)
       IN  IF a.ok THEN a ELSE TryEnds(r, s, first, step, mid + 1, hi, fl, gs, ge)

M(k, s, i, fl, gs, ge) ==
  IF Len(k) = 0 THEN [ok |-> TRUE, start |-> 0, end |-> i, gs |-> gs, ge |-> ge]
  ELSE
  LET h == Head(k)
      r == Tail(k)
  IN
  CASE h.t \in {"ch", "set"} ->
         IF i <= Len(s) /\ OneChar(h, s[i], fl)
         THEN M(r, s, i + 1, fl, gs, ge) ELSE NoMatch
    [] h.t = "cat" -> M(h.xs \o r, s, i, fl, gs, ge)
    [] h.t = "alt" ->
         IF Len(h.xs) = 0 THEN NoMatch
         ELSE LET a == M(<< Head(h.xs) >> \o r, s, i, fl, gs, ge)
              IN  IF a.ok THEN a
                  ELSE M(<< Alt(Tail(h.xs)) >> \o r, s, i, fl, gs, ge)
    [] h.t = "rep" /\ h.x.t \in {"ch", "set"} ->
         LET far == RunEnd(h.x, s, i, fl, IF h.hi = Inf THEN Len(s) ELSE h.hi)
         IN  IF far < i + h.lo THEN NoMatch
             ELSE IF h.lazy THEN TryEnds(r, s, i + h.lo, 1, 0, far - i - h.lo, fl, gs, ge)
             ELSE TryEnds(r, s, far, 0 - 1, 0, far - i - h.lo, fl, gs, ge)
    [] h.t = "rep" /\ h.x.t \notin {"ch", "set"} ->
         IF h.lo > 0
         THEN M(<< h.x, [h EXCEPT !.lo = h.lo - 1,
                                  !.hi = IF h.hi = Inf THEN Inf ELSE h.hi - 1] >> \o r,
                s, i, fl, gs, ge)
         ELSE IF h.hi = 0 THEN M(r, s, i, fl, gs, ge)
         ELSE LET more == << h.x, [t |-> "prog", at |-> i],
                             [h EXCEPT !.hi = IF h.hi = Inf THEN Inf ELSE h.hi - 1] >> \o r
              IN  IF h.lazy
                  THEN LET a == M(r, s, i, fl, gs, ge)
                       IN  IF a.ok THEN a ELSE M(more, s, i, fl, gs, ge)
                  ELSE LET a == M(more, s, i, fl, gs, ge)
                       IN  IF a.ok THEN a ELSE M(r, s, i, fl, gs, ge)
    [] h.t = "prog" -> IF i > h.at THEN M(r, s, i, fl, gs, ge) ELSE NoMatch
    [] h.t = "grp" -> M(<< [t |-> "gopen"], h.x, [t |-> "gclose"] >> \o r, s, i, fl, gs, ge)
    [] h.t = "gopen" -> M(r, s, i, fl, i, ge)
    [] h.t = "gclose" -> M(r, s, i, fl, gs, i)
    [] h.t = "look" ->
         IF M(<< h.x >>, s, i, fl, 0, 0).ok # h.neg
         THEN M(r, s, i, fl, gs, ge) ELSE NoMatch
    [] h.t = "bol" ->
         IF i = 1 \/ (fl.m /\ s[i - 1] = NL)
         THEN M(r, s, i, fl, gs, ge) ELSE NoMatch
    [] h.t = "eol" ->
         IF \/ i = Len(s) + 1
            \/ (i = Len(s) /\ s[i] = NL)
            \/ (fl.m /\ i <= Len(s) /\ s[i] = NL)
         THEN M(r, s, i, fl, gs, ge) ELSE NoMatch
    [] h.t = "wordb" ->
         IF IsWordAt(s, i - 1) # IsWordAt(s, i)
         THEN M(r, s, i, fl, gs, ge) ELSE NoMatch

\* re.match(re, s, flags) but starting at position i
MatchAt(re, s, i, fl) ==
  [ M(<< re >>, s, i, fl, 0, 0) EXCEPT !.start = i ]

\* re.match
ReMatch(re, s, fl) == MatchAt(re, s, 1, fl)

\* the first match starting at a position in lo..hi (by halving)
RECURSIVE SearchRange(_, _, _, _, _)
SearchRange(re, s, lo, hi, fl) ==
  IF lo > hi THEN NoMatch
  ELSE IF lo = hi THEN MatchAt(re, s, lo, fl)
  ELSE LET mid == (lo + hi) \div 2
           a   == SearchRange(re, s, lo, mid, fl)
       IN  IF a.ok THEN a ELSE SearchRange(re, s, mid + 1, hi, fl)

SearchFrom(re, s, i, fl) == SearchRange(re, s, i, Len(s) + 1, fl)

\* re.search
ReSearch(re, s, fl) == SearchFrom(re, s, 1, fl)

\* m.group(1), m.group(0)
Group1(s, m) == Slice(s, m.gs, m.ge)
Group0(s, m) == Slice(s, m.start, m.end)

\* re.sub(re, repl, s, flags): every non-overlapping match replaced by repl
RECURSIVE SubFrom(_, _, _, _, _)
SubFrom(re, repl, s, i, fl) ==
  IF i > Len(s) + 1 THEN << >>
  ELSE LetIn(SearchFrom(re, s, i, fl), LAMBDA a :
         IF ~a.ok THEN Slice(s, i, Len(s) + 1)
         ELSE IF a.end > a.start
              THEN Slice(s, i, a.start) \o repl \o SubFrom(re, repl, s, a.end, fl)
              ELSE Slice(s, i, a.start) \o repl
                     \o Slice(s, a.start, IF a.start <= Len(s) THEN a.start + 1 ELSE a.start)
                     \o SubFrom(re, repl, s, a.start + 1, fl))

ReSub(re, repl, s, fl) == SubFrom(re, repl, s, 1, fl)

\* re.sub(re, '', s, flags)
ReSubEmpty(re, s, fl) == SubFrom(re, << >>, s, 1, fl)

\* re.findall(re, s) for a pattern without groups: the matched strings
RECURSIVE FindAllFrom(_, _, _, _)
FindAllFrom(re, s, i, fl) ==
  IF i > Len(s) + 1 THEN << >>
  ELSE LetIn(SearchFrom(re, s, i, fl), LAMBDA a :
         IF ~a.ok THEN << >>
         ELSE << Group0(s, a) >> \o
              FindAllFrom(re, s, IF a.end > a.start THEN a.end ELSE a.start + 1, fl))

ReFindAll(re, s, fl) == FindAllFrom(re, s, 1, fl)


(***************************************************************************)
(* Optional values: None and a present value are distinct, and a present   *)
(* empty string '' is not None.                                            *)
(***************************************************************************)
None     == [some |-> FALSE, v |-> << >>]
Some(v)  == [some |-> TRUE, v |-> v]
\* Python truthiness of an optional string: None and '' are falsy
Truthy(o) == o.some /\ Len(o.v) > 0

(***************************************************************************)
(* decimal.Decimal and float, as the code uses them                        *)
(***************************************************************************)
RECURSIVE DropLeadingZeros(_)
DropLeadingZeros(d) ==
  IF Len(d) > 0 /\ d[1] = "0" THEN DropLeadingZeros(Tail(d)) ELSE d

RECURSIVE DropTrailingZeros(_)
DropTrailingZeros(d) ==
  IF Len(d) > 0 /\ d[Len(d)] = "0"
  THEN DropTrailingZeros(SubSeq(d, 1, Len(d) - 1)) ELSE d

RemoveAll(s, c) == SelectSeq(s, LAMBDA x : x # c)

\* the string with every decimal digit written as its ASCII digit, which is
\* how float() and Decimal() read it
AsciiDigits(s) ==
  [ i \in 1..Len(s) |->
      IF s[i] \in ArabicIndicCh
      THEN DigitSeq[CHOOSE k \in 1..10 : ArabicIndicSeq[k] = s[i]] ELSE s[i] ]
CountOf(s, c)   == Len(SelectSeq(s, LAMBDA x : x = c))
Zeros(n)        == [ i \in 1..n |-> "0" ]

\* A Decimal: sign, coefficient digits (no leading zeros, "0" for zero) and
\* exponent, as Decimal.as_tuple() gives them.
NoDecimal  == [some |-> FALSE, neg |-> FALSE, coef |-> << >>, exp |-> 0]
Dec(n, c, e) == [some |-> TRUE, neg |-> n, coef |-> c, exp |-> e]

\* the position of the first '.' of s, or Len(s) + 1
FirstDot(s) ==
  IF CountOf(s, ".") >= 1
  THEN CHOOSE i \in 1..Len(s) : s[i] = "." /\ \A j \in 1..(i - 1) : s[j] # "."
  ELSE Len(s) + 1

\* the digits before and after the first '.' of s
IntDigits(s)  == Slice(s, 1, FirstDot(s))
FracDigits(s) == Slice(s, FirstDot(s) + 1, Len(s) + 1)

\* Decimal of an unsigned body
UnsignedDecimal(neg, body) ==
  LetIn(IntDigits(body), LAMBDA ip :
  LetIn(FracDigits(body), LAMBDA fp :
  LetIn(DropLeadingZeros(ip \o fp), LAMBDA c :
    IF /\ CountOf(body, ".") <= 1
       /\ \A i \in 1..Len(body) : body[i] \in DigitCh \cup {"."}
       /\ Len(ip) + Len(fp) > 0
    THEN Dec(neg, IF Len(c) = 0 THEN << "0" >> ELSE c, 0 - Len(fp))
    ELSE NoDecimal)))

\* Decimal(s) for s over digits, '.', '-': the value, or NoDecimal where the
\* constructor raises InvalidOperation (caught by the caller).
DecimalOf(s) ==
  IF Len(s) > 0 /\ s[1] = "-" THEN UnsignedDecimal(TRUE, AsciiDigits(Tail(s)))
  ELSE UnsignedDecimal(FALSE, AsciiDigits(s))

\* bool(Decimal): zero is falsy; None is falsy
DecTruthy(d) == d.some /\ d.coef # << "0" >>

\* A float of the magnitudes the tokens reach: digits d without leading or
\* trailing zeros and the position p of the decimal point, the value being
\* 0.d1d2... * 10^p; zero is d = <<>>, p = 0.  Tokens stay within the 15
\* significant digits a double holds exactly, so repr round-trips.
NoFloat == [ok |-> FALSE, d |-> << >>, p |-> 0]

\* float(s) for s over digits and '.': raises ValueError (ok = FALSE) when
\* s holds no digit
FloatOf(number) ==
  LetIn(AsciiDigits(number), LAMBDA s :
  LetIn(IntDigits(s), LAMBDA ip :
  LetIn(ip \o FracDigits(s), LAMBDA all :
  LetIn(DropLeadingZeros(all), LAMBDA d0 :
  LetIn(DropTrailingZeros(d0), LAMBDA d :
    IF /\ CountOf(s, ".") <= 1
       /\ \A i \in 1..Len(s) : s[i] \in DigitCh \cup {"."}
       /\ Len(all) > 0
    THEN IF Len(d) = 0 THEN [ok |-> TRUE, d |-> << >>, p |-> 0]
         ELSE [ok |-> TRUE, d |-> d, p |-> Len(ip) - (Len(all) - Len(d0))]
    ELSE NoFloat)))))

DigitVal(c) == (CHOOSE i \in 1..10 : DigitSeq[i] = c) - 1
DigitAt(d, i) == IF i <= Len(d) THEN DigitVal(d[i]) ELSE 0

RECURSIVE DigitsLess(_, _, _)
DigitsLess(a, b, i) ==
  IF i > Len(a) /\ i > Len(b) THEN FALSE
  ELSE IF DigitAt(a, i) # DigitAt(b, i) THEN DigitAt(a, i) < DigitAt(b, i)
  ELSE DigitsLess(a, b, i + 1)

FloatIsZero(f) == Len(f.d) = 0

\* a < b on non-negative floats
FloatLess(a, b) ==
  IF FloatIsZero(b) THEN FALSE
  ELSE IF FloatIsZero(a) THEN TRUE
  ELSE IF a.p # b.p THEN a.p < b.p
  ELSE DigitsLess(a.d, b.d, 1)

\* f == int(f)
FloatIsIntegral(f) == Len(f.d) <= f.p \/ FloatIsZero(f)

TwoDigits(n) == << DigitSeq[(n \div 10) + 1], DigitSeq[(n % 10) + 1] >>

\* str(f): repr of a float, fixed notation for 1e-4 <= f < 1e16 and
\* exponent notation outside it
FloatStr(f) ==
  IF FloatIsZero(f) THEN Chars("0.0")
  ELSE IF f.p > -4 /\ f.p <= 16
  THEN IF f.p <= 0 THEN Chars("0.") \o Zeros(0 - f.p) \o f.d
       ELSE IF f.p >= Len(f.d) THEN f.d \o Zeros(f.p - Len(f.d)) \o Chars(".0")
       ELSE Slice(f.d, 1, f.p + 1) \o Chars(".") \o Slice(f.d, f.p + 1, Len(f.d) + 1)
  ELSE << f.d[1] >>
       \o (IF Len(f.d) > 1 THEN Chars(".") \o Tail(f.d) ELSE << >>)
       \o (IF f.p - 1 < 0 THEN Chars("e-") \o TwoDigits(1 - f.p)
           ELSE Chars("e+") \o TwoDigits(f.p - 1))

(***************************************************************************)
(* extract_field_value (lines 136-186)                                     *)
(***************************************************************************)
\* rf'{pattern}\s*[:=]\s*([^\n:{{]+)'
Strategy1Re(pattern) ==
  Cat(<< pattern, Star(AnyS), Set({":", "="}), Star(AnyS),
         Grp(Plus(NotSet({NL, ":", "{"}))) >>)

\* r'\s+(?:Tel|Fax|Del|Ref|Date|Kind|Attended|Type|Payment|Delivery|Reference|PI|Cust|Qty|Rate|Value)\b.*$'
TrailingLabels1 ==
  Cat(<< Plus(AnyS),
         Alt(<< Lit("Tel"), Lit("Fax"), Lit("Del"), Lit("Ref"), Lit("Date"), Lit("Kind"),
                Lit("Attended"), Lit("Type"), Lit("Payment"), Lit("Delivery"),
                Lit("Reference"), Lit("PI"), Lit("Cust"), Lit("Qty"), Lit("Rate"),
                Lit("Value") >>),
         WordB, Star(Dot), Eol >>)

\* rf'{pattern}\s+(?![:=])([A-Z][^\n:{{]*?)(?=\n[A-Z]|\s{2,}[A-Z]|\n$|$)'
\* The pattern is an f-string: its {2,} is a replacement field, the tuple
\* (2,), so the regex compiled is \s(2,)[A-Z]: one whitespace character, the
\* two characters "2," (a second group, never read) and a letter.
Strategy2Re(pattern) ==
  Cat(<< pattern, Plus(AnyS), NotLook(Set({":", "="})),
         Grp(Cat(<< Set(UpperCh), RepLazy(NotSet({NL, ":", "{"}), 0, Inf) >>)),
         Look(Alt(<< Cat(<< Ch(NL), Set(UpperCh) >>),
                     Cat(<< AnyS, Lit("2,"), Set(UpperCh) >>),
                     Cat(<< Ch(NL), Eol >>),
                     Eol >>)) >>)

\* r'\s+(?:Tel|...|Value|SR|NO)\b.*$'
TrailingLabels2 ==
  Cat(<< Plus(AnyS),
         Alt(<< Lit("Tel"), Lit("Fax"), Lit("Del"), Lit("Ref"), Lit("Date"), Lit("Kind"),
                Lit("Attended"), Lit("Type"), Lit("Payment"), Lit("Delivery"),
                Lit("Reference"), Lit("PI"), Lit("Cust"), Lit("Qty"), Lit("Rate"),
                Lit("Value"), Lit("SR"), Lit("NO") >>),
         WordB, Star(Dot), Eol >>)

\* rf'{pattern}\s*[:=]?\s*(.+)$'
Strategy3SameLineRe(pattern) ==
  Cat(<< pattern, Star(AnyS), Opt(Set({":", "="})), Star(AnyS), Grp(Plus(Dot)), Eol >>)

\* r'^(?:Tel|Fax|Del|Ref|Date)\b'
Strategy3StopRe ==
  Cat(<< Bol, Alt(<< Lit("Tel"), Lit("Fax"), Lit("Del"), Lit("Ref"), Lit("Date") >>), WordB >>)

\* r'^[A-Z]+[a-zA-Z\s]*\s*[:=]'   (matched without re.I)
LabelLineRe ==
  Cat(<< Bol, Plus(Set(UpperCh)), Star(Set(LowerCh \cup UpperCh \cup SpaceCh)),
         Star(AnyS), Set({":", "="}) >>)

\* r'^(?:Tel|Fax|Del|Ref|Date|SR|NO|Code|Customer|Address)\b'
Strategy3NextStopRe ==
  Cat(<< Bol, Alt(<< Lit("Tel"), Lit("Fax"), Lit("Del"), Lit("Ref"), Lit("Date"), Lit("SR"),
                     Lit("NO"), Lit("Code"), Lit("Customer"), Lit("Address") >>), WordB >>)

\* lines 176-184: the value on one of the next lines, j = 1 .. min(4, len - i) - 1
RECURSIVE Strategy3Next(_, _, _)
Strategy3Next(lns, i, j) ==
  IF j > 3 \/ i + j > Len(lns) THEN None
  ELSE LetIn(Strip(lns[i + j]), LAMBDA next_line :
       LetIn(ReMatch(LabelLineRe, next_line, Flags0).ok, LAMBDA label :
         IF Len(next_line) > 0 /\ ~label
         THEN IF Len(next_line) > 2
                   /\ ~ReMatch(Strategy3NextStopRe, next_line, FlagsI).ok
              THEN Some(next_line)
              ELSE Strategy3Next(lns, i, j + 1)
         ELSE IF label THEN None
         ELSE Strategy3Next(lns, i, j + 1)))

\* lines 165-184: the loop over the lines of the text
RECURSIVE Strategy3(_, _, _)
Strategy3(pattern, lns, i) ==
  IF i > Len(lns) THEN None
  ELSE IF ~ReSearch(pattern, lns[i], FlagsI).ok THEN Strategy3(pattern, lns, i + 1)
  ELSE LetIn(ReSearch(Strategy3SameLineRe(pattern), lns[i], FlagsI), LAMBDA m :
       LetIn(Strip(Group1(lns[i], m)), LAMBDA value :
       LetIn(Strategy3Next(lns, i, 1), LAMBDA nxt :
         IF /\ m.ok
            /\ Len(value) > 0
            /\ StrUpper(value) \notin {Chars(":"), Chars("=")}
            /\ ~ReMatch(Strategy3StopRe, value, FlagsI).ok
         THEN Some(value)
         ELSE IF nxt.some THEN nxt
         ELSE Strategy3(pattern, lns, i + 1))))

\* extract_field_value(label_patterns) from pattern number k on
RECURSIVE extract_field_value_from(_, _, _)
extract_field_value_from(patterns, k, search_text) ==
  IF k > Len(patterns) THEN None
  ELSE
  LetIn(ReSearch(Strategy1Re(patterns[k]), search_text, FlagsIM), LAMBDA m1 :
  LetIn(Strip(ReSubEmpty(TrailingLabels1, Strip(Group1(search_text, m1)), FlagsI)),
        LAMBDA v1 :
  LetIn(ReSearch(Strategy2Re(patterns[k]), search_text, FlagsIM), LAMBDA m2 :
  LetIn(Strip(ReSubEmpty(TrailingLabels2, Strip(Group1(search_text, m2)), FlagsI)),
        LAMBDA v2 :
  LetIn(Strategy3(patterns[k], SplitOn(search_text, NL), 1), LAMBDA v3 :
    IF m1.ok /\ Len(Strip(Group1(search_text, m1))) > 0 /\ Len(v1) > 0 THEN Some(v1)
    ELSE IF m2.ok /\ Len(Strip(Group1(search_text, m2))) > 0 /\ Len(v2) > 2 THEN Some(v2)
    ELSE IF v3.some THEN v3
    ELSE extract_field_value_from(patterns, k + 1, search_text))))))

extract_field_value(label_patterns, search_text) ==
  extract_field_value_from(label_patterns, 1, search_text)

(***************************************************************************)
(* Label patterns of the header fields                                     *)
(***************************************************************************)
\* [r'Code\s*No', r'Code\s*#', r'Code(?:\s|:)']
CodeNoPatterns ==
  << Cat(<< Lit("Code"), Star(AnyS), Lit("No") >>),
     Cat(<< Lit("Code"), Star(AnyS), Ch("#") >>),
     Cat(<< Lit("Code"), Alt(<< AnyS, Ch(":") >>) >>) >>

\* [r'Customer\s*Name', r'Bill\s*To', r'Buyer\s*Name', r'Client\s*Name']
CustomerNamePatterns ==
  << Cat(<< Lit("Customer"), Star(AnyS), Lit("Name") >>),
     Cat(<< Lit("Bill"), Star(AnyS), Lit("To") >>),
     Cat(<< Lit("Buyer"), Star(AnyS), Lit("Name") >>),
     Cat(<< Lit("Client"), Star(AnyS), Lit("Name") >>) >>

\* r'(?:Tel|Telephone|Phone)'
PhonePatterns == << Alt(<< Lit("Tel"), Lit("Telephone"), Lit("Phone") >>) >>

\* r'(?:Reference|Ref\.?|For|FOR)'
ReferencePatterns ==
  << Alt(<< Lit("Reference"), Cat(<< Lit("Ref"), Opt(Ch(".")) >>), Lit("For"), Lit("FOR") >>) >>

\* [r'PI\s*(?:No|Number|#)', r'Invoice\s*(?:No|Number)']
InvoiceNoPatterns ==
  << Cat(<< Lit("PI"), Star(AnyS), Alt(<< Lit("No"), Lit("Number"), Ch("#") >>) >>),
     Cat(<< Lit("Invoice"), Star(AnyS), Alt(<< Lit("No"), Lit("Number") >>) >>) >>

\* r'(?:Payment|Payment\s*Method|Payment\s*Type)'
PaymentPatterns ==
  << Alt(<< Lit("Payment"), Cat(<< Lit("Payment"), Star(AnyS), Lit("Method") >>),
            Cat(<< Lit("Payment"), Star(AnyS), Lit("Type") >>) >>) >>

\* r'(?:Delivery|Delivery\s*Terms)'
DeliveryPatterns ==
  << Alt(<< Lit("Delivery"), Cat(<< Lit("Delivery"), Star(AnyS), Lit("Terms") >>) >>) >>

\* r'(?:Remarks|Notes|NOTE)'
RemarksPatterns == << Alt(<< Lit("Remarks"), Lit("Notes"), Lit("NOTE") >>) >>

\* r'(?:Attended\s*By|Attended|Served\s*By)'
AttendedByPatterns ==
  << Alt(<< Cat(<< Lit("Attended"), Star(AnyS), Lit("By") >>), Lit("Attended"),
            Cat(<< Lit("Served"), Star(AnyS), Lit("By") >>) >>) >>

\* r'(?:Kind\s*Attention|Kind\s*Attn)'
KindAttentionPatterns ==
  << Alt(<< Cat(<< Lit("Kind"), Star(AnyS), Lit("Attention") >>),
            Cat(<< Lit("Kind"), Star(AnyS), Lit("Attn") >>) >>) >>

(***************************************************************************)
(* Name / address classification (lines 196-219)                           *)
(***************************************************************************)
\* str.isupper(): at least one cased character and no lower-case one
IsUpperStr(s) ==
  /\ \E i \in 1..Len(s) : s[i] \in UpperCh
  /\ \A i \in 1..Len(s) : s[i] \notin LowerCh

\* len(text.split()): the number of whitespace-separated words
WordCount(s) ==
  Cardinality({ i \in 1..Len(s) :
                  s[i] \notin SpaceCh /\ (i = 1 \/ s[i - 1] \in SpaceCh) })

address_keywords ==
  << "street", "avenue", "road", "box", "p.o", "po", "floor", "apt", "suite",
     "district", "region" >>

address_indicators ==
  << "street", "avenue", "road", "box", "p.o", "po", "floor", "apt", "suite",
     "district", "region", "city", "country", "zip", "postal", "dar", "dar-es",
     "tanzania", "nairobi", "kenya" >>

AnyKeywordIn(kws, s) ==
  \E k \in 1..Len(kws) : Contains(StrLower(s), Chars(kws[k]))

is_likely_customer_name(t) ==
  /\ Len(t) > 0
  /\ ~AnyKeywordIn(address_keywords, t)
  /\ Len(t) > 2 /\ (t[1] \in UpperCh \/ IsUpperStr(t))
  /\ Len(t) > 3

is_likely_address(t) ==
  /\ Len(t) > 0
  /\ \/ AnyKeywordIn(address_indicators, t)
     \/ /\ \E i \in 1..Len(t) : t[i] \in UnicodeDigitCh
        /\ ("," \in Range(t) \/ WordCount(t) > 2)

\* lines 229-231: a name that looks like an address is cleared
ValidateCustomerName(name) ==
  IF Truthy(name) /\ is_likely_address(name.v) /\ ~is_likely_customer_name(name.v)
  THEN None ELSE name

(***************************************************************************)
(* Address (lines 233-274)                                                 *)
(***************************************************************************)
\* r'^Address\s*[:=]?'
AddressStartRe == Cat(<< Bol, Lit("Address"), Star(AnyS), Opt(Set({":", "="})) >>)

\* r'^Address\s*[:=]?\s*(.+)$'
AddressValueRe ==
  Cat(<< Bol, Lit("Address"), Star(AnyS), Opt(Set({":", "="})), Star(AnyS),
         Grp(Plus(Dot)), Eol >>)

\* r'^[A-Z][a-zA-Z\s]*\s*[:=]'   (matched with re.I)
AddressLabelRe ==
  Cat(<< Bol, Set(UpperCh), Star(Set(LowerCh \cup UpperCh \cup SpaceCh)), Star(AnyS),
         Set({":", "="}) >>)

\* r'^(?:Tel|Telephone|Phone|Fax|Del\.|Ref|Date|PI|Kind|Attended|Type|Payment|Delivery|Reference)\b'
AddressKnownLabelRe ==
  Cat(<< Bol, Alt(<< Lit("Tel"), Lit("Telephone"), Lit("Phone"), Lit("Fax"), Lit("Del."),
                     Lit("Ref"), Lit("Date"), Lit("PI"), Lit("Kind"), Lit("Attended"),
                     Lit("Type"), Lit("Payment"), Lit("Delivery"), Lit("Reference") >>),
         WordB >>)

\* r'\s+(?:Tel|Fax|Del|Ref|Date|PI|Cust|Kind|Attended|Type|Payment|Delivery|Reference)\b.*$'
AddressNoiseRe ==
  Cat(<< Plus(AnyS),
         Alt(<< Lit("Tel"), Lit("Fax"), Lit("Del"), Lit("Ref"), Lit("Date"), Lit("PI"),
                Lit("Cust"), Lit("Kind"), Lit("Attended"), Lit("Type"), Lit("Payment"),
                Lit("Delivery"), Lit("Reference") >>),
         WordB, Star(Dot), Eol >>)

\* lines 248-266: the continuation lines j = 1..4 after line i
RECURSIVE AddressContinuation(_, _, _)
AddressContinuation(cl, i, j) ==
  IF j > 4 THEN << >>
  ELSE IF i + j > Len(cl) THEN AddressContinuation(cl, i, j + 1)
  ELSE LET next_line == cl[i + j]
       IN  IF Len(Strip(next_line)) = 0 THEN AddressContinuation(cl, i, j + 1)
           ELSE IF ReMatch(AddressLabelRe, next_line, FlagsI).ok THEN << >>
           ELSE IF ReMatch(AddressKnownLabelRe, next_line, FlagsI).ok THEN << >>
           ELSE (IF Len(next_line) < 150 THEN << next_line >> ELSE << >>)
                  \o AddressContinuation(cl, i, j + 1)

\* lines 238-244: the value on the Address line itself
AddressFirstPart(line) ==
  LetIn(ReSearch(AddressValueRe, line, FlagsI), LAMBDA m :
  LetIn(Strip(Group1(line, m)), LAMBDA addr_val :
    IF m.ok /\ Len(addr_val) > 0 /\ ~ReMatch(LabelLineRe, addr_val, Flags0).ok
    THEN << addr_val >> ELSE << >>))

\* lines 234-274: the loop over cleaned_lines; acc is address so far
RECURSIVE ExtractAddressFrom(_, _, _)
ExtractAddressFrom(cl, i, acc) ==
  IF i > Len(cl) THEN acc
  ELSE IF ~ReSearch(AddressStartRe, cl[i], FlagsI).ok THEN ExtractAddressFrom(cl, i + 1, acc)
  ELSE LetIn(AddressFirstPart(cl[i]) \o AddressContinuation(cl, i, 1), LAMBDA addr_parts :
       LetIn(Strip(ReSubEmpty(AddressNoiseRe, Strip(Join(addr_parts, Chars(" "))), FlagsI)),
             LAMBDA cleaned :
         IF Len(addr_parts) = 0 THEN ExtractAddressFrom(cl, i + 1, acc)
         ELSE IF Len(cleaned) > 0 THEN Some(cleaned)
         ELSE ExtractAddressFrom(cl, i + 1, Some(cleaned))))

ExtractAddress(cl) == ExtractAddressFrom(cl, 1, None)

\* A faulty variant of the swaps: the name is copied from the address and
\* the address is left in place.
SwapKeepsAddress(name, address) ==
  IF ~Truthy(name) /\ Truthy(address) /\ is_likely_customer_name(address.v)
  THEN [name |-> address, address |-> address]
  ELSE [name |-> name, address |-> address]

\* lines 276-285: the two swaps, on the pair (customer_name, address)
SwapNameAddress(name, address) ==
  LetIn(IF ~Truthy(name) /\ Truthy(address) /\ is_likely_customer_name(address.v)
        THEN [name |-> address, address |-> None]
        ELSE [name |-> name, address |-> address],
        LAMBDA n1 :
    IF /\ Truthy(n1.name)
       /\ is_likely_address(n1.name.v)
       /\ ~is_likely_customer_name(n1.name.v)
       /\ ~Truthy(n1.address)
    THEN [name |-> None, address |-> n1.name]
    ELSE n1)

(***************************************************************************)
(* Phone (lines 287-306), email, date                                      *)
(***************************************************************************)
\* r'[\s/]+Fax.*$'
PhoneFaxRe == Cat(<< Plus(Set(SpaceCh \cup {"/"})), Lit("Fax"), Star(Dot), Eol >>)

\* r'[\s/]+.*(?:Tel|Fax|Email|Address|Ref)\b.*$'
PhoneTrailRe ==
  Cat(<< Plus(Set(SpaceCh \cup {"/"})), Star(Dot),
         Alt(<< Lit("Tel"), Lit("Fax"), Lit("Email"), Lit("Address"), Lit("Ref") >>),
         WordB, Star(Dot), Eol >>)

\* r'\d{5,}'
FiveDigitsRe == Rep(AnyD, 5, Inf)

\* r'^(?:Tel|Phone|Telephone)\s*[:=]?\s*'
PhonePrefixRe ==
  Cat(<< Bol, Alt(<< Lit("Tel"), Lit("Phone"), Lit("Telephone") >>), Star(AnyS),
         Opt(Set({":", "="})), Star(AnyS) >>)

\* lines 289-306 on the value extract_field_value returned
CleanPhone(extracted) ==
  IF ~Truthy(extracted) THEN extracted
  ELSE
  LetIn(Strip(ReSubEmpty(PhoneFaxRe, extracted.v, FlagsI)), LAMBDA p1 :
  LetIn(Strip(ReSubEmpty(PhoneTrailRe, p1, FlagsI)), LAMBDA p2 :
  LetIn(IF Len(p2) > 0 /\ ~ReSearch(FiveDigitsRe, p2, Flags0).ok THEN None ELSE Some(p2),
        LAMBDA p3 :
  LetIn(Strip(ReSubEmpty(PhonePrefixRe, p3.v, FlagsI)), LAMBDA p4 :
  LetIn(IF "/" \in Range(p4) THEN Strip(SplitOn(p4, "/")[1]) ELSE p4, LAMBDA p5 :
    IF ~Truthy(p3) THEN p3
    ELSE IF Len(p5) > 0 /\ ~ReSearch(AnyD, p5, Flags0).ok THEN None
    ELSE Some(p5))))))

\* r'([\w\.-]+@[\w\.-]+\.\w+)'
EmailRe ==
  Grp(Cat(<< Plus(Set(WordCh \cup {".", "-"})), Ch("@"), Plus(Set(WordCh \cup {".", "-"})),
             Ch("."), Plus(AnyW) >>))

ExtractEmail(t) ==
  LetIn(ReSearch(EmailRe, t, Flags0), LAMBDA m :
    IF m.ok THEN Some(Group1(t, m)) ELSE None)

\* (\d{1,2}[/\-]\d{1,2}[/\-]\d{2,4})
DateBodyRe ==
  Grp(Cat(<< Rep(AnyD, 1, 2), Set({"/", "-"}), Rep(AnyD, 1, 2), Set({"/", "-"}),
             Rep(AnyD, 2, 4) >>))

\* date_patterns (lines 326-330)
date_patterns ==
  << Cat(<< Lit("Date"), Star(AnyS), Opt(Set({":", "="})), Star(AnyS), DateBodyRe >>),
     Cat(<< Lit("Invoice"), Star(AnyS), Lit("Date"), Star(AnyS), Opt(Set({":", "="})),
            Star(AnyS), DateBodyRe >>),
     DateBodyRe >>

RECURSIVE ExtractDateFrom(_, _)
ExtractDateFrom(t, k) ==
  IF k > Len(date_patterns) THEN None
  ELSE LetIn(ReSearch(date_patterns[k], t, FlagsI), LAMBDA m :
         IF m.ok THEN Some(Group1(t, m)) ELSE ExtractDateFrom(t, k + 1))

ExtractDate(t) == ExtractDateFrom(t, 1)

(***************************************************************************)
(* Amounts: to_decimal (lines 338-347) and find_amount (lines 350-387)     *)
(***************************************************************************)
\* r'[^\d\.\,\-]'
NonAmountCharRe == NotSet(UnicodeDigitCh \cup {".", ",", "-"})

\* A faulty variant of to_decimal: what cannot be parsed counts as zero.
to_decimal_or_zero(s) ==
  IF ~Truthy(s) THEN NoDecimal
  ELSE LetIn(DecimalOf(RemoveAll(Strip(ReSubEmpty(NonAmountCharRe, s.v, Flags0)), ",")),
             LAMBDA parsed :
         IF parsed.some THEN parsed ELSE Dec(FALSE, << "0" >>, 0))

\* to_decimal(s) for an optional string s; NoDecimal is None
to_decimal(s) ==
  IF ~Truthy(s) THEN NoDecimal
  ELSE LetIn(Strip(ReSubEmpty(NonAmountCharRe, s.v, Flags0)), LAMBDA cleaned :
         IF Len(cleaned) > 0 /\ cleaned \notin {Chars("."), Chars(","), Chars("-")}
         THEN DecimalOf(RemoveAll(cleaned, ","))
         ELSE NoDecimal)

\* (?:TSH|TZS|UGX)?
CurrencyRe == Opt(Alt(<< Lit("TSH"), Lit("TZS"), Lit("UGX") >>))

\* A faulty variant of the amount group: ([0-9]+), the separators forgotten.
AmountRunDigitsOnly == Grp(Plus(Set(DigitCh)))

\* ([0-9\,\.]+)
AmountRunRe == Grp(Plus(Set(DigitCh \cup {",", "."})))

\* rf'{pattern}\s*:\s*(?:TSH|TZS|UGX)?\s*([0-9\,\.]+)'
AmountColonRe(pattern) ==
  Cat(<< pattern, Star(AnyS), Ch(":"), Star(AnyS), CurrencyRe, Star(AnyS), AmountRunRe >>)

\* rf'{pattern}\s*=\s*(?:TSH|TZS|UGX)?\s*([0-9\,\.]+)'
AmountEqualsRe(pattern) ==
  Cat(<< pattern, Star(AnyS), Ch("="), Star(AnyS), CurrencyRe, Star(AnyS), AmountRunRe >>)

\* rf'{pattern}\s+(?:TSH|TZS|UGX)?\s*([0-9\,\.]+)'
AmountSpaceRe(pattern) ==
  Cat(<< pattern, Plus(AnyS), CurrencyRe, Star(AnyS), AmountRunRe >>)

\* rf'{pattern}\s*[:=]?\s*([0-9\,\.]+)'
AmountSameLineRe(pattern) ==
  Cat(<< pattern, Star(AnyS), Opt(Set({":", "="})), Star(AnyS), AmountRunRe >>)

\* r'^(?:TSH|TZS|UGX)?\s*([0-9\,\.]+)'
AmountNextLineRe == Cat(<< Bol, CurrencyRe, Star(AnyS), AmountRunRe >>)

\* lines 379-386: the amount at the start of one of the next two lines
RECURSIVE AmountNext(_, _, _)
AmountNext(lns, i, j) ==
  IF j > 2 \/ i + j > Len(lns) THEN None
  ELSE LetIn(Strip(lns[i + j]), LAMBDA next_line :
       LetIn(ReMatch(AmountNextLineRe, next_line, FlagsI), LAMBDA m :
         IF m.ok THEN Some(Group1(next_line, m)) ELSE AmountNext(lns, i, j + 1)))

\* lines 370-386: the loop over the lines
RECURSIVE AmountByLines(_, _, _)
AmountByLines(pattern, lns, i) ==
  IF i > Len(lns) THEN None
  ELSE IF ~ReSearch(pattern, lns[i], FlagsI).ok THEN AmountByLines(pattern, lns, i + 1)
  ELSE LetIn(ReSearch(AmountSameLineRe(pattern), lns[i], FlagsI), LAMBDA m :
       LetIn(AmountNext(lns, i, 1), LAMBDA nxt :
         IF m.ok THEN Some(Group1(lns[i], m))
         ELSE IF nxt.some THEN nxt
         ELSE AmountByLines(pattern, lns, i + 1)))

\* A faulty variant of find_amount: for each label pattern the equals form
\* is tried before the colon form.
RECURSIVE find_amount_equals_first(_, _, _)
find_amount_equals_first(patterns, k, t) ==
  IF k > Len(patterns) THEN None
  ELSE
  LetIn(ReSearch(AmountColonRe(patterns[k]), t, FlagsIM), LAMBDA m1 :
  LetIn(ReSearch(AmountEqualsRe(patterns[k]), t, FlagsIM), LAMBDA m2 :
  LetIn(ReSearch(AmountSpaceRe(patterns[k]), t, FlagsIM), LAMBDA m3 :
  LetIn(AmountByLines(patterns[k], SplitOn(t, NL), 1), LAMBDA v4 :
    IF m2.ok THEN Some(Group1(t, m2))
    ELSE IF m1.ok THEN Some(Group1(t, m1))
    ELSE IF m3.ok THEN Some(Group1(t, m3))
    ELSE IF v4.some THEN v4
    ELSE find_amount_equals_first(patterns, k + 1, t)))))

\* the forms tried for one label pattern, in the order of the code, then
\* the next pattern
RECURSIVE find_amount_from(_, _, _)
find_amount_from(patterns, k, t) ==
  IF k > Len(patterns) THEN None
  ELSE
  LetIn(ReSearch(AmountColonRe(patterns[k]), t, FlagsIM), LAMBDA m1 :
  LetIn(ReSearch(AmountEqualsRe(patterns[k]), t, FlagsIM), LAMBDA m2 :
  LetIn(ReSearch(AmountSpaceRe(patterns[k]), t, FlagsIM), LAMBDA m3 :
  LetIn(AmountByLines(patterns[k], SplitOn(t, NL), 1), LAMBDA v4 :
    IF m1.ok THEN Some(Group1(t, m1))
    ELSE IF m2.ok THEN Some(Group1(t, m2))
    ELSE IF m3.ok THEN Some(Group1(t, m3))
    ELSE IF v4.some THEN v4
    ELSE find_amount_from(patterns, k + 1, t)))))

\* find_amount(label_patterns) on normalized_text
find_amount(label_patterns, t) == find_amount_from(label_patterns, 1, t)

\* [r'Net\s*Value', r'Net\s*Amount', r'Subtotal', r'Net\s*:']
SubtotalPatterns ==
  << Cat(<< Lit("Net"), Star(AnyS), Lit("Value") >>),
     Cat(<< Lit("Net"), Star(AnyS), Lit("Amount") >>),
     Lit("Subtotal"),
     Cat(<< Lit("Net"), Star(AnyS), Ch(":") >>) >>

\* [r'VAT', r'Tax', r'GST', r'Sales\s*Tax']
TaxPatterns ==
  << Lit("VAT"), Lit("Tax"), Lit("GST"), Cat(<< Lit("Sales"), Star(AnyS), Lit("Tax") >>) >>

\* [r'Gross\s*Value', r'Total\s*Amount', r'Grand\s*Total', r'Total\s*(?::|\s)']
TotalPatterns ==
  << Cat(<< Lit("Gross"), Star(AnyS), Lit("Value") >>),
     Cat(<< Lit("Total"), Star(AnyS), Lit("Amount") >>),
     Cat(<< Lit("Grand"), Star(AnyS), Lit("Total") >>),
     Cat(<< Lit("Total"), Star(AnyS), Alt(<< Ch(":"), AnyS >>) >>) >>

(***************************************************************************)
(* Payment method, delivery terms, remarks (lines 413-447)                 *)
(***************************************************************************)
\* r'Delivery.*$'
PaymentDeliveryRe == Cat(<< Lit("Delivery"), Star(Dot), Eol >>)

\* payment_map, in insertion order
payment_map ==
  << << "cash", "cash" >>, << "cheque", "cheque" >>, << "chq", "cheque" >>,
     << "bank", "bank_transfer" >>, << "transfer", "bank_transfer" >>,
     << "card", "card" >>, << "mpesa", "mpesa" >>, << "credit", "on_credit" >>,
     << "delivery", "on_delivery" >>, << "cod", "on_delivery" >> >>

RECURSIVE MapPayment(_, _)
MapPayment(pm, k) ==
  IF k > Len(payment_map) THEN pm
  ELSE IF Contains(StrLower(pm), Chars(payment_map[k][1])) THEN Chars(payment_map[k][2])
  ELSE MapPayment(pm, k + 1)

\* lines 415-435 on the value extract_field_value returned
CleanPaymentMethod(extracted) ==
  IF ~Truthy(extracted) THEN extracted
  ELSE LetIn(Strip(ReSubEmpty(PaymentDeliveryRe, extracted.v, FlagsI)), LAMBDA pm :
         IF Len(pm) > 1 THEN Some(MapPayment(pm, 1)) ELSE Some(pm))

\* r'(?:Remarks|Notes|NOTE).*$'
DeliveryRemarksRe ==
  Cat(<< Alt(<< Lit("Remarks"), Lit("Notes"), Lit("NOTE") >>), Star(Dot), Eol >>)

\* lines 439-440
CleanDeliveryTerms(extracted) ==
  IF ~Truthy(extracted) THEN extracted
  ELSE Some(Strip(ReSubEmpty(DeliveryRemarksRe, extracted.v, FlagsI)))

\* r'(?:\d+\s*:|^NOTE\s*\d+\s*:)'
RemarksNumberRe ==
  Alt(<< Cat(<< Plus(AnyD), Star(AnyS), Ch(":") >>),
         Cat(<< Bol, Lit("NOTE"), Star(AnyS), Plus(AnyD), Star(AnyS), Ch(":") >>) >>)

\* r'(?:Payment|Delivery|Due|See).*$'
RemarksTrailRe ==
  Cat(<< Alt(<< Lit("Payment"), Lit("Delivery"), Lit("Due"), Lit("See") >>), Star(Dot), Eol >>)

\* lines 444-447
CleanRemarks(extracted) ==
  IF ~Truthy(extracted) THEN extracted
  ELSE LET r1 == Strip(ReSubEmpty(RemarksNumberRe, extracted.v, FlagsI))
       IN  Some(Strip(ReSubEmpty(RemarksTrailRe, r1, FlagsI)))

(***************************************************************************)
(* Line items (lines 460-591)                                              *)
(***************************************************************************)
\* the six keyword classes of the table header (lines 470-477)
HeaderKeywordRes ==
  << Cat(<< WordB, Alt(<< Lit("Sr"), Lit("S.N"), Lit("Serial"),
                          Cat(<< Lit("No"), Opt(Ch(".")) >>) >>), WordB >>),
     Cat(<< WordB, Alt(<< Lit("Item"), Lit("Code") >>), WordB >>),
     Cat(<< WordB, Alt(<< Lit("Description"), Lit("Desc") >>), WordB >>),
     Cat(<< WordB, Alt(<< Lit("Qty"), Lit("Quantity"),
                          Cat(<< Lit("Qty"), Opt(Ch(".")) >>), Lit("Type") >>), WordB >>),
     Cat(<< WordB, Alt(<< Lit("Rate"), Lit("Price"), Lit("Unit"), Lit("UnitPrice") >>), WordB >>),
     Cat(<< WordB, Alt(<< Lit("Value"), Lit("Amount"), Lit("Total") >>), WordB >>) >>

keyword_count(line_stripped) ==
  Cardinality({ k \in 1..Len(HeaderKeywordRes) :
                  ReSearch(HeaderKeywordRes[k], line_stripped, FlagsI).ok })

\* r'(?:Net\s*Value|Gross\s*Value|Grand\s*Total|Total\s*:|Payment|Delivery|Remarks|NOTE)'
TotalsSectionRe ==
  Alt(<< Cat(<< Lit("Net"), Star(AnyS), Lit("Value") >>),
         Cat(<< Lit("Gross"), Star(AnyS), Lit("Value") >>),
         Cat(<< Lit("Grand"), Star(AnyS), Lit("Total") >>),
         Cat(<< Lit("Total"), Star(AnyS), Ch(":") >>),
         Lit("Payment"), Lit("Delivery"), Lit("Remarks"), Lit("NOTE") >>)

\* r'[0-9\,]+\.?\d*'
NumberRe == Cat(<< Plus(Set(DigitCh \cup {","})), Opt(Ch(".")), Star(AnyD) >>)

\* r'\b(\d{3,6})\b'
ItemCodeRe == Cat(<< WordB, Grp(Rep(AnyD, 3, 6)), WordB >>)

\* r'\b(NOS|PCS|KG|HR|LTR|PIECES?|UNITS?|BOX|CASE|SETS?|PC|KIT)\b'
UnitRe ==
  Cat(<< WordB,
         Grp(Alt(<< Lit("NOS"), Lit("PCS"), Lit("KG"), Lit("HR"), Lit("LTR"),
                    Cat(<< Lit("PIECE"), Opt(Ch("S")) >>), Cat(<< Lit("UNIT"), Opt(Ch("S")) >>),
                    Lit("BOX"), Lit("CASE"), Cat(<< Lit("SET"), Opt(Ch("S")) >>),
                    Lit("PC"), Lit("KIT") >>)),
         WordB >>)

\* r'\b' + unit_match.group(1) + r'\b'
UnitWordRe(u) == Cat(<< WordB, Cat([ i \in 1..Len(u) |-> Ch(u[i]) ]), WordB >>)

\* A faulty variant of the text parts: the numbers are not removed, the
\* whole line is the one text part.
TextPartsKeepNumbers(line_stripped) ==
  IF \A i \in 1..Len(line_stripped) : line_stripped[i] \in UnicodeDigitCh \cup {",", ".", " "}
  THEN << >> ELSE << line_stripped >>

\* [p.strip() for p in text_only.split('|') if p.strip()]
TextParts(line_stripped) ==
  LetIn(SplitOn(ReSub(NumberRe, Chars("|"), line_stripped, Flags0), "|"), LAMBDA pieces :
    SelectSeq([ i \in 1..Len(pieces) |-> Strip(pieces[i]) ], LAMBDA x : Len(x) > 0))

\* [float(n.replace(',', '')) for n in numbers]
FloatNumbers(numbers) == [ i \in 1..Len(numbers) |-> FloatOf(RemoveAll(numbers[i], ",")) ]

\* a float conversion of the list raised ValueError
FloatsRaise(numbers) == \E i \in 1..Len(numbers) : ~FloatOf(RemoveAll(numbers[i], ",")).ok

RECURSIVE FloatMaxFrom(_, _, _)
FloatMaxFrom(fs, i, best) ==
  IF i > Len(fs) THEN best
  ELSE FloatMaxFrom(fs, i + 1, IF FloatLess(best, fs[i]) THEN fs[i] ELSE best)

\* max(float_numbers)
FloatMax(fs) == FloatMaxFrom(fs, 2, fs[1])

\* a quantity: an int (is_int) or a float, with its value
Qty(is_int, f) == [is_int |-> is_int, f |-> f]
QtyOne == Qty(TRUE, FloatOf(Chars("1")))
QtyTruthy(q) == ~FloatIsZero(q.f)

\* int(x) if x == int(x) else x
IntIfIntegral(f) == Qty(FloatIsIntegral(f), f)

\* the integer part of a float below 1000, as a number
RECURSIVE DigitsValue(_, _)
DigitsValue(d, n) ==
  IF n = 0 THEN 0 ELSE DigitsValue(d, n - 1) * 10 + DigitAt(d, n)

FloatIntPart(f) == IF f.p <= 0 THEN 0 ELSE DigitsValue(f.d, f.p)

RECURSIVE NatDigits(_)
NatDigits(n) == IF n < 10 THEN << DigitSeq[n + 1] >>
                ELSE NatDigits(n \div 10) \o << DigitSeq[(n % 10) + 1] >>

\* the first fractional digit of f
FirstFracDigit(f) == IF f.p < 0 THEN 0 ELSE DigitAt(f.d, f.p + 1)

\* 0.1 < fn < 1000
InQtyRange(f) ==
  /\ ~FloatIsZero(f)
  /\ f.p <= 3
  /\ FloatLess(FloatOf(Chars("0.1")), f)

\* fn == int(fn) or abs(fn - round(fn)) < 0.1, in decimal arithmetic
IntegerLike(f) ==
  \/ FloatIsIntegral(f)
  \/ FirstFracDigit(f) = 0
  \/ (FirstFracDigit(f) = 9 /\ Len(f.d) > f.p + 1 /\ f.p >= 0)

\* int(round(fn)) for an integer-like fn below 1000
RoundToInt(f) ==
  Qty(TRUE, FloatOf(NatDigits(IF FloatIsIntegral(f) \/ FirstFracDigit(f) = 0
                              THEN FloatIntPart(f) ELSE FloatIntPart(f) + 1)))

\* max_num / 100
DivHundred(f) == IF FloatIsZero(f) THEN f ELSE [f EXCEPT !.p = f.p - 2]

FloatLeq(a, b) == ~FloatLess(b, a)

\* lines 560-564: the first token that qualifies as a quantity
RECURSIVE PickQty(_, _, _)
PickQty(fs, i, max_num) ==
  IF i > Len(fs) THEN QtyOne
  ELSE IF InQtyRange(fs[i]) /\ IntegerLike(fs[i]) /\ FloatLeq(fs[i], DivHundred(max_num))
  THEN RoundToInt(fs[i])
  ELSE PickQty(fs, i + 1, max_num)

Take(s, n) == IF Len(s) <= n THEN s ELSE SubSeq(s, 1, n)

\* lines 538-567: (qty, value) from the numbers of the row
AssignRoles(fs) ==
  IF Len(fs) = 1
  THEN [qty |-> QtyOne, value |-> to_decimal(Some(FloatStr(fs[1])))]
  ELSE IF Len(fs) = 2
  THEN IF FloatLess(fs[1], fs[2])
       THEN [qty |-> IntIfIntegral(fs[1]), value |-> to_decimal(Some(FloatStr(fs[2])))]
       ELSE [qty |-> IntIfIntegral(fs[2]), value |-> to_decimal(Some(FloatStr(fs[1])))]
  ELSE [qty |-> PickQty(fs, 1, FloatMax(fs)),
        value |-> to_decimal(Some(FloatStr(FloatMax(fs))))]

\* lines 524-528: item['code']
ItemCode(full_text) ==
  LetIn(ReSearch(ItemCodeRe, full_text, Flags0), LAMBDA code_match :
    IF code_match.ok THEN Some(Group1(full_text, code_match)) ELSE None)

\* lines 531-535: the unit, and the description with the unit removed
UnitAndDescription(line_stripped, full_text) ==
  LetIn(ReSearch(UnitRe, line_stripped, FlagsI), LAMBDA unit_match :
  LetIn(Group1(line_stripped, unit_match), LAMBDA unit_text :
    IF unit_match.ok
    THEN [unit |-> Some(StrUpper(unit_text)),
          description |->
            Take(Strip(ReSubEmpty(UnitWordRe(unit_text), Take(full_text, 255), FlagsI)), 255)]
    ELSE [unit |-> None, description |-> Take(full_text, 255)]))

\* A faulty variant of the row: the test of line 570 is left out and every
\* item built is appended.
BuildItemAlwaysEmits(line_stripped, text_parts, numbers) ==
  LetIn(Join(text_parts, Chars(" ")), LAMBDA full_text :
  LetIn(UnitAndDescription(line_stripped, full_text), LAMBDA ud :
  LetIn(AssignRoles(FloatNumbers(numbers)), LAMBDA roles :
    [item |-> [description |-> ud.description,
               qty   |-> roles.qty,
               unit  |-> ud.unit,
               value |-> roles.value,
               rate  |-> NoDecimal,
               code  |-> ItemCode(full_text)],
     emit |-> TRUE])))

\* lines 505-571: the item of a row with text and numbers, as the try block
\* builds it; emit says whether it is appended
BuildItem(line_stripped, text_parts, numbers) ==
  LetIn(Join(text_parts, Chars(" ")), LAMBDA full_text :
  LetIn(UnitAndDescription(line_stripped, full_text), LAMBDA ud :
  LetIn(AssignRoles(FloatNumbers(numbers)), LAMBDA roles :
    [item |-> [description |-> ud.description,
               qty   |-> roles.qty,
               unit  |-> ud.unit,
               value |-> roles.value,
               rate  |-> NoDecimal,
               code  |-> ItemCode(full_text)],
     emit |-> Len(ud.description) > 0
                /\ (DecTruthy(roles.value) \/ QtyTruthy(roles.qty))])))

\* lines 577-591: a line of numbers only, acting on the last item
MergeNumbersOnly(items, numbers) ==
  IF Len(items) = 0 \/ FloatsRaise(numbers) THEN items
  ELSE LetIn(FloatMax(FloatNumbers(numbers)), LAMBDA value :
         IF ~FloatIsZero(value) /\ ~DecTruthy(items[Len(items)].value)
         THEN [items EXCEPT ![Len(items)].value = to_decimal(Some(FloatStr(value)))]
         ELSE items)

\* A faulty variant of the row: no except clause, the ValueError of the
\* float conversion leaves the loop body.
TryRowRaises(st, line_stripped, text_parts, numbers) ==
  IF Len(Join(text_parts, Chars(" "))) < 2 THEN st
  ELSE IF FloatsRaise(numbers) THEN [st EXCEPT !.exc = TRUE]
  ELSE LetIn(BuildItem(line_stripped, text_parts, numbers), LAMBDA built :
         IF built.emit THEN [st EXCEPT !.items = Append(st.items, built.item)]
         ELSE st)

\* A faulty variant of the row: the new item is put in front of the items
\* already emitted.
TryRowPrepends(st, line_stripped, text_parts, numbers) ==
  IF Len(Join(text_parts, Chars(" "))) < 2 THEN st
  ELSE IF FloatsRaise(numbers) THEN st
  ELSE LetIn(BuildItem(line_stripped, text_parts, numbers), LAMBDA built :
         IF built.emit THEN [st EXCEPT !.items = << built.item >> \o st.items]
         ELSE st)

\* lines 504-574: the try block of a row with text and numbers.  Whatever
\* is raised inside it (the ValueError of float('') for a token made of
\* commas only) is caught at line 573: the row adds nothing and nothing is
\* raised further.
TryRow(st, line_stripped, text_parts, numbers) ==
  IF Len(Join(text_parts, Chars(" "))) < 2 THEN st
  ELSE IF FloatsRaise(numbers) THEN st
  ELSE LetIn(BuildItem(line_stripped, text_parts, numbers), LAMBDA built :
         IF built.emit THEN [st EXCEPT !.items = Append(st.items, built.item)]
         ELSE st)

\* One iteration of the loop of line 464, for line number idx (0-based as in
\* the code) with the loop state st = items, item_section_started,
\* item_header_idx; brk: the loop was left by break; exc: an exception left
\* the loop body.
\* lines 490-591: a line after the table header
ItemLine(st, line_stripped, text_parts, numbers) ==
  IF Len(numbers) = 0 /\ Len(text_parts) = 0 THEN st
  ELSE IF Len(text_parts) > 0 /\ Len(numbers) > 0
  THEN TryRow(st, line_stripped, text_parts, numbers)
  ELSE IF Len(numbers) > 0 /\ Len(text_parts) = 0
  THEN [st EXCEPT !.items = MergeNumbersOnly(st.items, numbers)]
  ELSE st

\* A faulty variant of the loop body: the header line is not skipped but
\* read as a row of the table it opens.
ItemLoopReadsHeader(st, idx, line_stripped) ==
  IF Len(line_stripped) = 0 THEN st
  ELSE IF keyword_count(line_stripped) >= 3
  THEN ItemLine([st EXCEPT !.item_section_started = TRUE, !.item_header_idx = idx],
                line_stripped, TextParts(line_stripped),
                ReFindAll(NumberRe, line_stripped, Flags0))
  ELSE IF /\ st.item_section_started
          /\ idx > st.item_header_idx + 1
          /\ ReSearch(TotalsSectionRe, line_stripped, FlagsI).ok
  THEN [st EXCEPT !.brk = TRUE]
  ELSE IF ~(st.item_section_started /\ idx > st.item_header_idx) THEN st
  ELSE ItemLine(st, line_stripped, TextParts(line_stripped),
                ReFindAll(NumberRe, line_stripped, Flags0))

\* lines 466-591 for a line already stripped
ItemLoopStripped(st, idx, line_stripped) ==
  IF Len(line_stripped) = 0 THEN st
  ELSE IF keyword_count(line_stripped) >= 3
  THEN [st EXCEPT !.item_section_started = TRUE, !.item_header_idx = idx]
  ELSE IF /\ st.item_section_started
          /\ idx > st.item_header_idx + 1
          /\ ReSearch(TotalsSectionRe, line_stripped, FlagsI).ok
  THEN [st EXCEPT !.brk = TRUE]
  ELSE IF ~(st.item_section_started /\ idx > st.item_header_idx) THEN st
  ELSE ItemLine(st, line_stripped, TextParts(line_stripped),
                ReFindAll(NumberRe, line_stripped, Flags0))

ItemLoopBody(st, idx, line) == ItemLoopStripped(st, idx, Strip(line))

(***************************************************************************)
(* parse_invoice_data: the result dictionaries                             *)
(***************************************************************************)
TextFields ==
  { "invoice_no", "code_no", "date", "customer_name", "address", "phone", "email",
    "reference", "payment_method", "delivery_terms", "remarks", "attended_by",
    "kind_attention" }
AmountFields == { "subtotal", "tax", "total" }

\* every header key of the returned dict (lines 593-611), items apart
NullHeader ==
  [ invoice_no |-> None, code_no |-> None, date |-> None, customer_name |-> None,
    address |-> None, phone |-> None, email |-> None, reference |-> None,
    subtotal |-> NoDecimal, tax |-> NoDecimal, total |-> NoDecimal,
    payment_method |-> None, delivery_terms |-> None, remarks |-> None,
    attended_by |-> None, kind_attention |-> None ]

\* A faulty variant of the blank return: the textual fields come back as
\* empty strings instead of None.
EmptyStringResult ==
  [header |-> [ f \in DOMAIN NullHeader |->
                  IF f \in AmountFields THEN NoDecimal ELSE Some(<< >>) ],
   items |-> << >>]

\* the dict returned for blank text (lines 104-122)
BlankResult == [header |-> NullHeader, items |-> << >>]

\* `not text or not text.strip()` (line 103)
IsBlank(t) == Len(t) = 0 \/ Len(Strip(t)) = 0

\* lines 460-462: the loop state before the first line
InitialLoopState ==
  [items |-> << >>, item_section_started |-> FALSE, item_header_idx |-> 0 - 1,
   brk |-> FALSE, exc |-> FALSE]

(***************************************************************************)
(* extract_text_from_pdf (lines 28-70) and extract_from_bytes (614-730)    *)
(***************************************************************************)
ImageExts == { "jpg", "jpeg", "png", "gif", "tiff", "bmp" }

\* a library is "ok" (present and reads the file), "fails" (present, raises
\* on the file) or "absent"; doc_text is the text layer of the document.
\* raises: the RuntimeError of line 68.
extract_text_from_pdf(file) ==
  IF file.fitz = "ok" THEN [raises |-> FALSE, text |-> file.doc_text]
  ELSE IF file.pypdf2 = "ok" THEN [raises |-> FALSE, text |-> file.doc_text]
  ELSE [raises |-> TRUE, text |-> << >>]

\* A faulty variant of the classification: an image file counts as a PDF.
is_pdf_or_image(file) == file.ext = "pdf" \/ file.magic_pdf \/ file.ext \in ImageExts

is_pdf(file)   == file.ext = "pdf" \/ file.magic_pdf
is_image(file) == file.ext \in ImageExts

FailureResult(error, raw_text) ==
  [success |-> FALSE, error |-> error, header |-> << >>, items |-> << >>,
   raw_text |-> raw_text]

\* the keys of the header extract_from_bytes builds (lines 688-700)
BytesHeaderKeys ==
  { "invoice_no", "code_no", "date", "customer_name", "phone", "email", "address",
    "reference", "subtotal", "tax", "total" }

\* lines 686-708: the success result from the parsed dict
SuccessResult(parsed, raw_text) ==
  [success |-> TRUE, error |-> "",
   header |-> [ k \in BytesHeaderKeys |-> parsed.header[k] ],
   items |-> parsed.items, raw_text |-> raw_text]

(***************************************************************************)
(* api_extract_invoice_preview (views_invoice_upload.py lines 27-120)      *)
(***************************************************************************)
\* a JSON number or null
JsonNull      == [null |-> TRUE, f |-> NoFloat]
JsonNumber(f) == [null |-> FALSE, f |-> f]

\* float(d) for a Decimal d >= 0 of the magnitudes the amounts reach
FloatOfDecimal(d) ==
  IF ~DecTruthy(d) THEN [ok |-> TRUE, d |-> << >>, p |-> 0]
  ELSE [ok |-> TRUE, d |-> DropTrailingZeros(d.coef), p |-> Len(d.coef) + d.exp]

\* float(x or 0) for an optional Decimal x: None and zero both give 0.0
FloatOrZero(d) == JsonNumber(FloatOfDecimal(d))

\* int(qty): the digits before the decimal point
IntOfQty(q) ==
  IF q.f.p <= 0 THEN Qty(TRUE, [ok |-> TRUE, d |-> << >>, p |-> 0])
  ELSE Qty(TRUE, [q.f EXCEPT !.d = DropTrailingZeros(Take(q.f.d, q.f.p))])

\* lines 110-116: one item of the preview
PreviewItem(item) ==
  [description |-> item.description,
   qty   |-> IntOfQty(item.qty),
   unit  |-> item.unit,
   code  |-> item.code,
   value |-> FloatOrZero(item.value)]

\* lines 77-82 and 50-53: an answer without data (the message texts of
\* extract_from_bytes are not kept in the model)
PreviewFailure(message, error) ==
  [success |-> FALSE, message |-> message, error |-> error,
   header |-> << >>, items |-> << >>, raw_text |-> << >>]

\* the keys of the header of the preview (lines 91-108)
PreviewTextKeys ==
  { "invoice_no", "code_no", "customer_name", "phone", "email", "address", "reference",
    "date", "payment_method", "delivery_terms", "remarks", "attended_by",
    "kind_attention" }

\* header.get(k): None for a key the header of extract_from_bytes lacks
HeaderGet(header, k) == IF k \in DOMAIN header THEN header[k] ELSE None

\* lines 77-120: the answer built from what extract_from_bytes returned
PreviewResponse(extracted) ==
  IF ~extracted.success
  THEN PreviewFailure("extraction failed", extracted.error)
  ELSE [success |-> TRUE, message |-> "Invoice data extracted successfully",
        error |-> "",
        header |-> [ k \in PreviewTextKeys \cup AmountFields |->
                       IF k \in AmountFields THEN FloatOrZero(extracted.header[k])
                       ELSE HeaderGet(extracted.header, k) ],
        items |-> [ i \in 1..Len(extracted.items) |-> PreviewItem(extracted.items[i]) ],
        raw_text |-> extracted.raw_text]

(***************************************************************************)
(* api_create_invoice_from_upload (views_invoice_upload.py lines 125-327)  *)
(***************************************************************************)
\* record number k of a kind, created by request number n
Record(kind, n, k) == [kind |-> kind, by |-> n, no |-> k]

\* the locals before the first statement of the view
NoView == [customer_obj |-> "none", vehicle |-> "none", order |-> "none", inv |-> "none"]

\* the answers with success False (lines 172-175, 190-193, 225-228, 324-327)
\* and the answer with success True (lines 311-319)
CreateFailure(message) == [success |-> FALSE, message |-> message]
CreateSuccess == [success |-> TRUE, message |-> "Invoice created and order updated successfully"]

\* Decimal(str(x or '0').replace(',', '')) (lines 253-255); NoDecimal where
\* the constructor raises
PostedAmount(x) == DecimalOf(RemoveAll(IF Len(x) = 0 THEN Chars("0") ELSE x, ","))

\* int(qty or 1) raises ValueError (line 274), for a qty over digits and
\* letters
IntRaises(qty) == \E i \in 1..Len(qty) : qty[i] \notin DigitCh

\* lines 269-280: the line items saved by request n. An item without a
\* description is skipped; an item whose qty or price cannot be converted
\* raises inside the try of line 270 and is not saved.
SavedLines(items, n) ==
  { Record("line_item", n, k) :
      k \in { j \in 1..Len(items) :
                /\ Len(Strip(items[j].description)) > 0
                /\ ~IntRaises(items[j].qty)
                /\ PostedAmount(items[j].price).some } }

(***************************************************************************)
(* State                                                                   *)
(***************************************************************************)
VARIABLES
  requests,              \* the calls made, in order: entry point and arguments
  call,                  \* number of the call in progress
  pc,                    \* position in the call
  text,                  \* parse_invoice_data's argument
  normalized_text,       \* line 124
  hdr,                   \* the header locals of parse_invoice_data
  located,               \* what find_amount returned for subtotal, tax, total
  idx,                   \* loop index of line 464 (0-based)
  loop,                  \* items, item_section_started, item_header_idx
  raised,                \* an exception left parse_invoice_data
  results,               \* what parse_invoice_data returned, per call
  outs,                  \* what extract_from_bytes returned, per call
  responses,             \* what the two views answered, per call
  db,                    \* the records committed to the database
  atomic,                \* the records written inside the open transaction
  view,                  \* the locals of api_create_invoice_from_upload
  ocr                    \* what process_uploaded_invoice_file returned, per call

vars == << requests, call, pc, text, normalized_text, hdr, located, idx, loop,
           raised, results, outs, responses, db, atomic, view, ocr >>

\* lines 125: lines = normalized_text.split('\n')
lines == SplitOn(normalized_text, NL)

\* lines 128-133: the stripped non-empty lines
cleaned_lines ==
  SelectSeq([ i \in 1..Len(lines) |-> Strip(lines[i]) ], LAMBDA x : Len(x) > 0)

NoLocated == [subtotal |-> None, tax |-> None, total |-> None]

request == requests[call]

(***************************************************************************)
(* Actions                                                                 *)
(***************************************************************************)
\* a caller calls parse_invoice_data(text) directly
CallParse ==
  /\ pc = "call" /\ request.entry = "parse"
  /\ text' = request.text
  /\ pc' = "parse"
  /\ UNCHANGED << requests, call, normalized_text, hdr, located, idx, loop, raised,
                  results, outs, responses, db, atomic, view, ocr >>

\* where a call of extract_from_bytes returns to: the preview handler
\* (views_invoice_upload.py line 67) or the caller of the model
AfterBytes == IF request.entry = "preview" THEN "preview" ELSE "next"

\* api_extract_invoice_preview up to the call of extract_from_bytes
\* (views_invoice_upload.py lines 45-67), or to the answer 'No file uploaded'
ApiExtractInvoicePreviewBegin ==
  /\ pc = "call" /\ request.entry = "preview"
  /\ IF request.file.uploaded
     THEN /\ pc' = "bytes"
          /\ responses' = responses
     ELSE /\ pc' = "next"
          /\ responses' = Append(responses, PreviewFailure("No file uploaded", ""))
  /\ UNCHANGED << requests, call, text, normalized_text, hdr, located, idx, loop,
                  raised, results, outs, db, atomic, view, ocr >>

\* api_extract_invoice_preview from the return of extract_from_bytes on
\* (views_invoice_upload.py lines 76-120)
ApiExtractInvoicePreviewFinish ==
  /\ pc = "preview"
  /\ responses' = Append(responses, PreviewResponse(outs[Len(outs)]))
  /\ pc' = "next"
  /\ UNCHANGED << requests, call, text, normalized_text, hdr, located, idx, loop,
                  raised, results, outs, db, atomic, view, ocr >>

\* extract_from_bytes up to the call of parse_invoice_data (lines 628-686)
\* or to the return of a result without parsing (lines 629-681, 722-730)
ExtractFromBytesBegin ==
  /\ \/ pc = "call" /\ request.entry = "bytes"
     \/ pc = "bytes"
  /\ LET file == request.file
         ex   == extract_text_from_pdf(file)
         fail(e) == /\ outs' = Append(outs, FailureResult(e, << >>))
                    /\ pc' = AfterBytes
                    /\ text' = text
     IN  IF file.empty THEN fail("empty_file")
         ELSE IF is_pdf(file)
         THEN IF ex.raises THEN fail("pdf_extraction_failed")
              ELSE IF Len(ex.text) > 0
              THEN /\ text' = ex.text
                   /\ pc' = "parse"
                   /\ outs' = outs
              ELSE fail("no_text_extracted")
         ELSE IF is_image(file) THEN fail("image_file_not_supported")
         ELSE fail("unsupported_file_type")
  /\ UNCHANGED << requests, call, normalized_text, hdr, located, idx, loop, raised,
                  results, responses, db, atomic, view, ocr >>

AfterParse == IF request.entry = "parse" THEN "next" ELSE "bytes_after_parse"

\* lines 103-122
ParseBlank ==
  /\ pc = "parse" /\ IsBlank(text)
  /\ results' = Append(results, BlankResult)
  /\ pc' = AfterParse
  /\ UNCHANGED << requests, call, text, normalized_text, hdr, located, idx, loop,
                  raised, outs, responses, db, atomic, view, ocr >>

\* lines 124-133
ParseNormalize ==
  /\ pc = "parse" /\ ~IsBlank(text)
  /\ normalized_text' = Strip(text)
  /\ hdr' = NullHeader
  /\ located' = NoLocated
  /\ pc' = "code_no"
  /\ UNCHANGED << requests, call, text, idx, loop, raised, results, outs, responses, db, atomic, view, ocr >>

\* a step that assigns one header local and moves on
FieldStep(at, field, value, next) ==
  /\ pc = at
  /\ hdr' = [hdr EXCEPT ![field] = value]
  /\ pc' = next
  /\ UNCHANGED << requests, call, text, normalized_text, located, idx, loop, raised,
                  results, outs, responses, db, atomic, view, ocr >>

\* lines 189-193
ExtractCodeNo ==
  FieldStep("code_no", "code_no",
            extract_field_value(CodeNoPatterns, normalized_text), "customer_name")

\* lines 222-231
ExtractCustomerName ==
  FieldStep("customer_name", "customer_name",
            ValidateCustomerName(extract_field_value(CustomerNamePatterns, normalized_text)),
            "address")

\* lines 233-274
ExtractAddressStep ==
  FieldStep("address", "address", ExtractAddress(cleaned_lines), "swap")

\* lines 276-285
SwapStep ==
  /\ pc = "swap"
  /\ LetIn(SwapNameAddress(hdr.customer_name, hdr.address), LAMBDA r :
        hdr' = [hdr EXCEPT !.customer_name = r.name, !.address = r.address])
  /\ pc' = "phone"
  /\ UNCHANGED << requests, call, text, normalized_text, located, idx, loop, raised,
                  results, outs, responses, db, atomic, view, ocr >>

\* lines 288-306
ExtractPhone ==
  FieldStep("phone", "phone",
            CleanPhone(extract_field_value(PhonePatterns, normalized_text)), "email")

\* lines 309-312
ExtractEmailStep ==
  FieldStep("email", "email", ExtractEmail(normalized_text), "reference")

\* line 315
ExtractReference ==
  FieldStep("reference", "reference",
            extract_field_value(ReferencePatterns, normalized_text), "invoice_no")

\* lines 318-321
ExtractInvoiceNo ==
  FieldStep("invoice_no", "invoice_no",
            extract_field_value(InvoiceNoPatterns, normalized_text), "date")

\* lines 324-335
ExtractDateStep ==
  FieldStep("date", "date", ExtractDate(normalized_text), "subtotal")

\* a step that finds and parses one amount
AmountStep(at, field, patterns, next) ==
  /\ pc = at
  /\ LetIn(find_amount(patterns, normalized_text), LAMBDA s :
        /\ located' = [located EXCEPT ![field] = s]
        /\ hdr' = [hdr EXCEPT ![field] = to_decimal(s)])
  /\ pc' = next
  /\ UNCHANGED << requests, call, text, normalized_text, idx, loop, raised, results,
                  outs, responses, db, atomic, view, ocr >>

\* lines 390-395
ExtractSubtotal == AmountStep("subtotal", "subtotal", SubtotalPatterns, "tax")
\* lines 398-403
ExtractTax == AmountStep("tax", "tax", TaxPatterns, "total")
\* lines 406-411
ExtractTotal == AmountStep("total", "total", TotalPatterns, "payment_method")

\* lines 414-435
ExtractPaymentMethod ==
  FieldStep("payment_method", "payment_method",
            CleanPaymentMethod(extract_field_value(PaymentPatterns, normalized_text)),
            "delivery_terms")

\* lines 438-440
ExtractDeliveryTerms ==
  FieldStep("delivery_terms", "delivery_terms",
            CleanDeliveryTerms(extract_field_value(DeliveryPatterns, normalized_text)),
            "remarks")

\* lines 443-447
ExtractRemarks ==
  FieldStep("remarks", "remarks",
            CleanRemarks(extract_field_value(RemarksPatterns, normalized_text)),
            "attended_by")

\* line 450
ExtractAttendedBy ==
  FieldStep("attended_by", "attended_by",
            extract_field_value(AttendedByPatterns, normalized_text), "kind_attention")

\* line 453
ExtractKindAttention ==
  FieldStep("kind_attention", "kind_attention",
            extract_field_value(KindAttentionPatterns, normalized_text), "items_init")

\* A faulty variant of lines 460-462: the list of items is not a fresh
\* local but one list shared by all calls.
ItemsInitShared ==
  /\ pc = "items_init"
  /\ loop' = [InitialLoopState EXCEPT !.items = loop.items]
  /\ idx' = 0
  /\ pc' = "items"
  /\ UNCHANGED << requests, call, text, normalized_text, hdr, located, raised,
                  results, outs, responses, db, atomic, view, ocr >>

\* lines 460-462
ItemsInit ==
  /\ pc = "items_init"
  /\ loop' = InitialLoopState
  /\ idx' = 0
  /\ pc' = "items"
  /\ UNCHANGED << requests, call, text, normalized_text, hdr, located, raised,
                  results, outs, responses, db, atomic, view, ocr >>

\* one iteration of the loop of lines 464-591
ItemLoop ==
  /\ pc = "items" /\ idx < Len(lines) /\ ~loop.brk
  /\ LetIn(ItemLoopBody(loop, idx, lines[idx + 1]), LAMBDA st :
        /\ loop' = st
        /\ raised' = st.exc
        /\ pc' = IF st.exc THEN AfterParse ELSE "items")
  /\ idx' = idx + 1
  /\ UNCHANGED << requests, call, text, normalized_text, hdr, located, results, outs, responses, db, atomic, view, ocr >>

\* lines 593-611
ParseReturn ==
  /\ pc = "items" /\ (idx >= Len(lines) \/ loop.brk)
  /\ results' = Append(results, [header |-> hdr, items |-> loop.items])
  /\ pc' = AfterParse
  /\ UNCHANGED << requests, call, text, normalized_text, hdr, located, idx, loop,
                  raised, outs, responses, db, atomic, view, ocr >>

\* lines 686-719: the result built from what parse_invoice_data returned, or
\* parsing_failed when it raised
ExtractFromBytesFinish ==
  /\ pc = "bytes_after_parse"
  /\ outs' = Append(outs, IF raised THEN FailureResult("parsing_failed", text)
                          ELSE SuccessResult(results[Len(results)], text))
  /\ pc' = AfterBytes
  /\ UNCHANGED << requests, call, text, normalized_text, hdr, located, idx, loop,
                  raised, results, responses, db, atomic, view, ocr >>

\* the variables of the parser, of extract_from_bytes and of
\* process_uploaded_invoice_file, which the view
\* api_create_invoice_from_upload does not touch
ParserVars == << text, normalized_text, hdr, located, idx, loop, raised, results, outs,
                ocr >>

\* `return JsonResponse(...)` inside `with transaction.atomic()` (line 162):
\* the block is left without an exception, so the transaction commits
ReturnInsideAtomic(response) ==
  /\ responses' = Append(responses, response)
  /\ db' = db \cup atomic
  /\ atomic' = {}
  /\ pc' = "next"

\* an exception leaves the block: the transaction rolls back, and the
\* handler of lines 322-327 answers
RaiseInsideAtomic ==
  /\ responses' = Append(responses, CreateFailure("Error"))
  /\ db' = db
  /\ atomic' = {}
  /\ pc' = "next"

\* lines 159-176: the transaction is opened and the form is validated
ApiCreateInvoiceBegin ==
  /\ pc = "call" /\ request.entry = "create"
  /\ view' = NoView
  /\ IF \/ Len(Strip(request.post.customer_name)) = 0
        \/ Len(Strip(request.post.customer_phone)) = 0
     THEN /\ atomic = {}
          /\ ReturnInsideAtomic(CreateFailure("Customer name and phone are required"))
     ELSE /\ atomic' = {}
          /\ pc' = "customer"
          /\ UNCHANGED << responses, db >>
  /\ UNCHANGED << requests, call, ParserVars >>

\* lines 179-193: CustomerService.create_or_get_customer creates the
\* customer, finds it, returns None or raises
CreateOrGetCustomer ==
  /\ pc = "customer"
  /\ \E outcome \in { "created", "existing", "none", "raises" } :
       CASE outcome = "created" ->
              /\ atomic' = atomic \cup { Record("customer", call, 1) }
              /\ view' = [view EXCEPT !.customer_obj = "created"]
              /\ pc' = "vehicle"
              /\ UNCHANGED << responses, db >>
         [] outcome = "existing" ->
              /\ view' = [view EXCEPT !.customer_obj = "existing"]
              /\ pc' = "vehicle"
              /\ UNCHANGED << responses, db, atomic >>
         [] outcome = "none" ->
              /\ ReturnInsideAtomic(CreateFailure("Failed to create/get customer"))
              /\ view' = view
         [] outcome = "raises" ->
              /\ RaiseInsideAtomic
              /\ view' = view
  /\ UNCHANGED << requests, call, ParserVars >>

\* lines 196-203: the vehicle of the plate, if a plate is posted; an
\* exception of VehicleService is caught at line 201
GetOrCreateVehicle ==
  /\ pc = "vehicle"
  /\ IF Len(Strip(request.post.plate)) = 0
     THEN UNCHANGED << atomic, view >>
     ELSE \E outcome \in { "created", "existing", "raises" } :
            /\ atomic' = IF outcome = "created"
                         THEN atomic \cup { Record("vehicle", call, 1) } ELSE atomic
            /\ view' = [view EXCEPT !.vehicle = IF outcome = "raises" THEN "none" ELSE outcome]
  /\ pc' = "order"
  /\ UNCHANGED << requests, call, ParserVars, responses, db >>

\* lines 206-234: the selected order if it is found, else a new order;
\* when OrderService.create_order raises, the view returns at line 225
GetOrCreateOrder ==
  /\ pc = "order"
  /\ \E found \in BOOLEAN :
       /\ found => Len(request.post.selected_order_id) > 0
       /\ IF found
          THEN /\ view' = [view EXCEPT !.order = "existing"]
               /\ pc' = "invoice"
               /\ UNCHANGED << responses, db, atomic >>
          ELSE \E outcome \in { "created", "raises" } :
                 IF outcome = "created"
                 THEN /\ atomic' = atomic \cup { Record("order", call, 1) }
                      /\ view' = [view EXCEPT !.order = "created"]
                      /\ pc' = "invoice"
                      /\ UNCHANGED << responses, db >>
                 ELSE /\ ReturnInsideAtomic(CreateFailure("Failed to create order"))
                      /\ view' = view
  /\ UNCHANGED << requests, call, ParserVars >>

\* lines 237-262: the invoice; an amount that is no decimal raises
\* InvalidOperation at lines 253-255, which nothing catches before line 322
CreateInvoice ==
  /\ pc = "invoice"
  /\ IF /\ PostedAmount(request.post.subtotal).some
        /\ PostedAmount(request.post.tax_amount).some
        /\ PostedAmount(request.post.total_amount).some
     THEN /\ atomic' = atomic \cup { Record("invoice", call, 1) }
          /\ view' = [view EXCEPT !.inv = "created"]
          /\ pc' = "lines"
          /\ UNCHANGED << responses, db >>
     ELSE /\ RaiseInsideAtomic
          /\ view' = view
  /\ UNCHANGED << requests, call, ParserVars >>

\* lines 265-284: the line items
CreateLineItems ==
  /\ pc = "lines"
  /\ atomic' = atomic \cup SavedLines(request.post.items, call)
  /\ pc' = "payment"
  /\ UNCHANGED << requests, call, ParserVars, responses, db, view >>

\* lines 287-297: the payment record, when the total that
\* inv.calculate_totals() gave is positive and payment.save() does not
\* raise (an exception is caught at line 296)
CreatePayment ==
  /\ pc = "payment"
  /\ \E positive, saved \in BOOLEAN :
       atomic' = IF positive /\ saved
                 THEN atomic \cup { Record("payment", call, 1) } ELSE atomic
  /\ pc' = "finish"
  /\ UNCHANGED << requests, call, ParserVars, responses, db, view >>

\* lines 300-319: the order is updated (an exception is caught at line
\* 307) and the view answers with success
CreateFinish ==
  /\ pc = "finish"
  /\ ReturnInsideAtomic(CreateSuccess)
  /\ UNCHANGED << requests, call, ParserVars, view >>

(***************************************************************************)
(* utils/invoice_ocr.py: InvoiceDataExtractor and                          *)
(* process_uploaded_invoice_file                                           *)
(***************************************************************************)
\* line 75: the extensions _validate_file supports
SupportedExts == { "pdf" } \cup ImageExts

\* line 315: (\d{1,3}(?:,\d{3})*|\d+), the parenthesis of amount_pattern
amount_number ==
  Alt(<< Cat(<< Rep(AnyD, 1, 3), Star(Cat(<< Ch(","), Rep(AnyD, 3, 3) >>)) >>),
         Plus(AnyD) >>)

\* whether a keyword pattern opens a parenthesis of its own
OpensGroup(keyword_pattern) ==
  keyword_pattern.t = "cat" /\ Head(keyword_pattern.xs).t = "grp"

\* line 315: amount_pattern = (\d{1,3}(?:,\d{3})*|\d+)(?:\.\d{1,2})?  Its
\* parenthesis is group 1 when first, and group 2, which the code never
\* reads, when the keyword pattern has opened group 1 before it.
amount_pattern(first) ==
  Cat(<< IF first THEN Grp(amount_number) ELSE amount_number,
         Opt(Cat(<< Ch("."), Rep(AnyD, 1, 2) >>)) >>)

\* A variant of the pattern of line 318 with the keyword pattern in a
\* non-capturing parenthesis: (?:keyword_pattern)[:\s]+amount_pattern
combined_pattern_grouped(keyword_pattern) ==
  Cat(<< keyword_pattern, Plus(Set(SpaceCh \cup {":"})),
         amount_pattern(~OpensGroup(keyword_pattern)) >>)

\* line 318: combined_pattern = f"{keyword_pattern}[:\\s]+{amount_pattern}".
\* The strings are concatenated, so where keyword_pattern is a top-level
\* alternation a|b|c the separator and the amount belong to its last
\* alternative only: a|b|c[:\s]+amount.
combined_pattern(keyword_pattern) ==
  IF keyword_pattern.t = "alt"
  THEN LetIn(keyword_pattern.xs, LAMBDA xs :
         Alt(SubSeq(xs, 1, Len(xs) - 1)
               \o << combined_pattern_grouped(xs[Len(xs)]) >>))
  ELSE combined_pattern_grouped(keyword_pattern)

\* lines 183-185: the keyword patterns of the three amounts
SubtotalKeyword == Alt(<< Lit("subtotal"), Lit("net value"), Lit("net") >>)
TaxKeyword      == Alt(<< Lit("vat"), Lit("tax"), Lit("sales tax") >>)
TotalKeyword ==
  Cat(<< Grp(Alt(<< Lit("total"), Lit("gross value") >>)),
         Star(AnyS), Ch(":") >>)

\* what a call returns: a Decimal, None (NoDecimal), or an exception
AmountValue(d) == [raises |-> FALSE, v |-> d]
AmountRaises   == [raises |-> TRUE, v |-> NoDecimal]

\* lines 303-330: _extract_amount(text_lower, keyword_pattern).  match.group(1)
\* is None when group 1 took no part in the match, and `',' not in None`
\* (line 322, before the try of line 323) raises TypeError; an
\* InvalidOperation of Decimal is caught at line 327.
extract_amount(text_lower, keyword_pattern) ==
  LetIn(ReSearch(combined_pattern(keyword_pattern), text_lower, Flags0), LAMBDA match :
    IF ~match.ok THEN AmountValue(NoDecimal)
    ELSE IF match.gs = 0 THEN AmountRaises
    ELSE AmountValue(DecimalOf(RemoveAll(Group1(text_lower, match), ","))))

NoAmounts == [subtotal |-> NoDecimal, tax_amount |-> NoDecimal, total_amount |-> NoDecimal]

\* lines 161-188: extract_invoice_data for the text extract_text returned:
\* the three amounts of the dict (a key left out is NoDecimal), or the
\* exception of one of the calls of lines 183-185.  The entries of lines
\* 178-182 are not amounts and are left out.
extract_invoice_data(t) ==
  IF Len(t) = 0 THEN [raises |-> FALSE, data |-> NoAmounts]
  ELSE
  LetIn(StrLower(t), LAMBDA text_lower :
  LetIn(extract_amount(text_lower, SubtotalKeyword), LAMBDA subtotal :
  LetIn(extract_amount(text_lower, TaxKeyword), LAMBDA tax_amount :
  LetIn(extract_amount(text_lower, TotalKeyword), LAMBDA total_amount :
    IF subtotal.raises \/ tax_amount.raises \/ total_amount.raises
    THEN [raises |-> TRUE, data |-> NoAmounts]
    ELSE [raises |-> FALSE,
          data |-> [subtotal |-> subtotal.v, tax_amount |-> tax_amount.v,
                    total_amount |-> total_amount.v]]))))

OcrFailure(error) == [success |-> FALSE, error |-> error, data |-> NoAmounts]

\* lines 341-376: process_uploaded_invoice_file(uploaded_file); the text of
\* the request is what extract_text (lines 79-88) reads from the file
process_uploaded_invoice_file(file, t) ==
  IF ~file.uploaded THEN OcrFailure("No uploaded file provided")
  ELSE IF file.ext \notin SupportedExts THEN OcrFailure("Unsupported file format")
  ELSE LetIn(extract_invoice_data(t), LAMBDA r :
         IF r.raises THEN OcrFailure("TypeError")
         ELSE [success |-> TRUE, error |-> "", data |-> r.data])

\* a caller calls process_uploaded_invoice_file(uploaded_file)
ProcessUploadedInvoiceFile ==
  /\ pc = "call" /\ request.entry = "ocr"
  /\ ocr' = Append(ocr, process_uploaded_invoice_file(request.file, request.text))
  /\ pc' = "next"
  /\ UNCHANGED << requests, call, text, normalized_text, hdr, located, idx, loop,
                  raised, results, outs, responses, db, atomic, view >>

\* the next call, with fresh locals
NextCall ==
  /\ pc = "next" /\ call < Len(requests)
  /\ call' = call + 1
  /\ pc' = "call"
  /\ raised' = FALSE
  /\ UNCHANGED << requests, text, normalized_text, hdr, located, idx, loop, results,
                  outs, responses, db, atomic, view, ocr >>

Next ==
  \/ CallParse \/ ExtractFromBytesBegin \/ ParseBlank \/ ParseNormalize
  \/ ExtractCodeNo \/ ExtractCustomerName \/ ExtractAddressStep \/ SwapStep
  \/ ExtractPhone \/ ExtractEmailStep \/ ExtractReference \/ ExtractInvoiceNo
  \/ ExtractDateStep \/ ExtractSubtotal \/ ExtractTax \/ ExtractTotal
  \/ ExtractPaymentMethod \/ ExtractDeliveryTerms \/ ExtractRemarks
  \/ ExtractAttendedBy \/ ExtractKindAttention \/ ItemsInit \/ ItemLoop
  \/ ParseReturn \/ ExtractFromBytesFinish \/ NextCall
  \/ ApiExtractInvoicePreviewBegin \/ ApiExtractInvoicePreviewFinish
  \/ ApiCreateInvoiceBegin \/ CreateOrGetCustomer \/ GetOrCreateVehicle
  \/ GetOrCreateOrder \/ CreateInvoice \/ CreateLineItems \/ CreatePayment
  \/ CreateFinish \/ ProcessUploadedInvoiceFile

(***************************************************************************)
(* Inputs                                                                  *)
(***************************************************************************)
\* request.POST of a request that posts no form
NoPost == [customer_name |-> << >>, customer_phone |-> << >>, plate |-> << >>,
           selected_order_id |-> << >>, subtotal |-> << >>, tax_amount |-> << >>,
           total_amount |-> << >>, items |-> << >>]

NoFile == [uploaded |-> FALSE, empty |-> FALSE, ext |-> "", magic_pdf |-> FALSE,
           fitz |-> "absent", pypdf2 |-> "absent", doc_text |-> << >>]

\* api_create_invoice_from_upload(request) with the form post
CreateCall(post) == [entry |-> "create", text |-> << >>, file |-> NoFile, post |-> post]

\* a form with a customer, a plate, amounts and one line item
GoodPost ==
  [customer_name |-> Chars("Acme Ltd"), customer_phone |-> Chars("0712345678"),
   plate |-> Chars("t123abc"), selected_order_id |-> Chars("7"),
   subtotal |-> Chars("1,000"), tax_amount |-> Chars("180"), total_amount |-> << >>,
   items |-> << [description |-> Chars("Bolt"), qty |-> Chars("2"), price |-> Chars("500")] >>]

\* parse_invoice_data(t)
ParseCall(t) == [entry |-> "parse", text |-> t, file |-> NoFile, post |-> NoPost]

\* extract_from_bytes(file_bytes, filename) for a PDF with text layer t
PdfCall(t) ==
  [entry |-> "bytes", text |-> << >>, post |-> NoPost,
   file |-> [uploaded |-> TRUE, empty |-> FALSE, ext |-> "pdf", magic_pdf |-> TRUE,
             fitz |-> "ok", pypdf2 |-> "absent", doc_text |-> t]]

\* api_extract_invoice_preview(request) with the PDF uploaded as 'file'
PreviewCall(t) == [PdfCall(t) EXCEPT !.entry = "preview"]

\* process_uploaded_invoice_file(uploaded_file) for an image whose OCR text is t
OcrCall(t) ==
  [entry |-> "ocr", text |-> t, post |-> NoPost,
   file |-> [NoFile EXCEPT !.uploaded = TRUE, !.ext = "png"]]

\* api_extract_invoice_preview(request) without a file
PreviewNoFileCall == [entry |-> "preview", text |-> << >>, file |-> NoFile, post |-> NoPost]

InitWith(reqs) ==
  /\ requests \in reqs
  /\ call = 1
  /\ pc = "call"
  /\ text = << >>
  /\ normalized_text = << >>
  /\ hdr = NullHeader
  /\ located = NoLocated
  /\ idx = 0
  /\ loop = InitialLoopState
  /\ raised = FALSE
  /\ results = << >>
  /\ outs = << >>
  /\ responses = << >>
  /\ db = {}
  /\ atomic = {}
  /\ view = NoView
  /\ ocr = << >>


\* the strings of length n, and of length up to n, over an alphabet
RECURSIVE StringsOfLen(_, _)
StringsOfLen(alphabet, n) ==
  IF n = 0 THEN { << >> }
  ELSE { Append(s, c) : s \in StringsOfLen(alphabet, n - 1), c \in alphabet }

StringsUpTo(alphabet, n) == UNION { StringsOfLen(alphabet, k) : k \in 0..n }

\* the non-empty sequences of length up to n over a set
SeqsUpTo(S, n) == UNION { [1..k -> S] : k \in 1..n }

\* One document that goes through every step of both entry points, then a
\* direct call with the empty string.
BaseText  == Chars("Tel: 12345\nItem Qty Value\nBolt 2 300")
BaseCalls == { << PdfCall(BaseText), ParseCall(<< >>) >>,
               << PreviewCall(BaseText), PreviewNoFileCall >>,
               << CreateCall(GoodPost) >>,
               << OcrCall(Chars("net: 500")) >> }

(***************************************************************************)
(* What a call returned                                                    *)
(***************************************************************************)
\* parse_invoice_data has returned to its caller in the call in progress
Returned ==
  /\ ~raised
  /\ \/ pc = "bytes_after_parse"
     \/ pc = "next" /\ request.entry = "parse"

LastResult == results[Len(results)]
LastOut    == outs[Len(outs)]

\* extract_from_bytes has returned in the call in progress
BytesReturned == pc = "next" /\ request.entry = "bytes"

AllWhitespace(t) == \A i \in 1..Len(t) : t[i] \in {" ", "\n", "\t", "\r"}

AllNull(r) ==
  /\ \A f \in TextFields : r.header[f] = None
  /\ \A f \in AmountFields : r.header[f] = NoDecimal
  /\ r.items = << >>

(***************************************************************************)
(* Blank input                                                             *)
(***************************************************************************)
MaxBlankLen == 3

BlankTexts == StringsUpTo(SpaceCh, MaxBlankLen)
BlankCalls == { << ParseCall(w) >> : w \in BlankTexts }
                \cup { << PdfCall(w) >> : w \in BlankTexts }

Init == InitWith(BaseCalls \cup BlankCalls)
Spec == Init /\ [][Next]_vars

\* C1: for every text that is empty or made of whitespace only,
\* parse_invoice_data returns every header field null and no items.
C1_BlankGivesNullResult ==
  (Returned /\ AllWhitespace(text)) => AllNull(LastResult)

C1_Witness ==
  /\ Returned /\ request.entry = "parse"
  /\ text = << " ", "\n", "\t" >>
  /\ AllNull(LastResult)

\* C2: when the text obtained for a document is empty or made of
\* whitespace only, extract_from_bytes returns success = false and no items.
C2_BlankNeverSucceeds ==
  LET file == request.file
      ex   == extract_text_from_pdf(file)
  IN  (/\ BytesReturned
       /\ ~file.empty /\ is_pdf(file)
       /\ ~ex.raises /\ AllWhitespace(ex.text))
      => (~LastOut.success /\ LastOut.items = << >>)

(***************************************************************************)
(* Amounts                                                                 *)
(***************************************************************************)
MaxAmountLen == 3
MaxGroups    == 2

\* "<label>: <raw>" for every raw string over digits and separators
AmountLabels   == { Chars("VAT"), Chars("Net Value"), Chars("Total") }
AmountAlphabet == { "0", "5", ",", "." }
RawAmountTexts ==
  { label \o Chars(": ") \o raw :
      label \in AmountLabels, raw \in StringsUpTo(AmountAlphabet, MaxAmountLen) }

\* "Net Value: <currency><N><tail>", N a number written with thousands
\* commas: a head, groups of three digits, an optional decimal part
AmountShapes ==
  [ head   : { Chars("1"), Chars("250") },
    groups : { << >> } \cup SeqsUpTo({ Chars("250"), Chars("000") }, MaxGroups),
    frac   : { << >>, Chars("00"), Chars("05") },
    cur    : { << >>, Chars("TSH "), Chars("UGX") },
    tail   : { << >>, Chars("\nNet Value: 7") } ]

RECURSIVE Concat(_)
Concat(parts) == IF Len(parts) = 0 THEN << >> ELSE Head(parts) \o Concat(Tail(parts))

\* N as written, and N's digits
ShapeNumber(sh) ==
  sh.head \o Concat([ i \in 1..Len(sh.groups) |-> Chars(",") \o sh.groups[i] ])
          \o (IF Len(sh.frac) > 0 THEN Chars(".") \o sh.frac ELSE << >>)

ShapeText(sh) == Chars("Net Value: ") \o sh.cur \o ShapeNumber(sh) \o sh.tail

\* N with the commas deleted, as a decimal with the fractional digits of N
ShapeValue(sh) ==
  Dec(FALSE, DropLeadingZeros(sh.head \o Concat(sh.groups) \o sh.frac), 0 - Len(sh.frac))

AmountCalls ==
  { << ParseCall(t) >> : t \in RawAmountTexts }
    \cup { << ParseCall(ShapeText(sh)) >> : sh \in AmountShapes }

InitAmount == InitWith(BaseCalls \cup AmountCalls)
SpecAmount == InitAmount /\ [][Next]_vars

NoDigitIn(s) == \A i \in 1..Len(s) : s[i] \notin DigitCh

\* the string holds a digit and every digit of it is 0
DenotesZero(s) ==
  /\ \E i \in 1..Len(s) : s[i] \in DigitCh
  /\ \A i \in 1..Len(s) : s[i] \in DigitCh => s[i] = "0"

IsZeroDecimal(d) == d.some /\ d.coef = << "0" >>

\* the amounts have been extracted in the call in progress
AmountsDone ==
  pc \in { "payment_method", "delivery_terms", "remarks", "attended_by",
           "kind_attention", "items_init", "items" }

\* C6: for subtotal, tax and total, a located numeric string without a
\* digit gives a null field, and the field is zero only when the located
\* string denotes zero.
C6_NoDigitGivesNull ==
  AmountsDone =>
    \A f \in AmountFields :
      /\ (located[f].some /\ NoDigitIn(located[f].v)) => hdr[f] = NoDecimal
      /\ IsZeroDecimal(hdr[f]) => (located[f].some /\ DenotesZero(located[f].v))

C6_Witness ==
  /\ AmountsDone
  /\ located.tax = Some(Chars(","))
  /\ hdr.tax = NoDecimal

\* C7: when the first subtotal label occurrence is "Net Value: N", N
\* written with thousands commas and an optional decimal part, after an
\* optional currency code, subtotal is N with the commas deleted and the
\* same fractional digits.
C7_NetValueExact ==
  (Returned /\ request.entry = "parse") =>
    \A sh \in AmountShapes :
      text = ShapeText(sh) => LastResult.header.subtotal = ShapeValue(sh)

C7_Witness ==
  /\ Returned
  /\ text = Chars("Net Value: TSH 1,250,000.00")
  /\ LastResult.header.subtotal = Dec(FALSE, Chars("125000000"), 0 - 2)

(***************************************************************************)
(* Header fields                                                           *)
(***************************************************************************)
MaxLines == 2

FieldLines ==
  { Chars("Customer Name: ACME LTD"),
    Chars("Customer Name: 12 main road, town"),
    Chars("Address: ACME LTD"),
    Chars("Address: 5 Box road"),
    Chars("Payment: Delivery now"),
    Chars("Tel: /Fax 12345") }

\* the texts of one to MaxLines of these lines
FieldTexts == { Join(ls, NL) : ls \in SeqsUpTo(FieldLines, MaxLines) }
FieldCalls == { << ParseCall(t) >> : t \in FieldTexts }

InitFields == InitWith(BaseCalls \cup FieldCalls)
SpecFields == InitFields /\ [][Next]_vars

\* lines 222-227 on the text of the call: the value found for the customer name
RawCustomerName == extract_field_value(CustomerNamePatterns, Strip(text))

\* lines 222-231 on the text of the call: the customer name that is kept
KeptCustomerName == ValidateCustomerName(RawCustomerName)

\* lines 233-274 on the text of the call: the address found
FoundAddress ==
  ExtractAddress(SelectSeq([ i \in 1..Len(SplitOn(Strip(text), NL)) |->
                               Strip(SplitOn(Strip(text), NL)[i]) ],
                           LAMBDA x : Len(x) > 0))

\* C5: in a result no textual header field is the empty string.
C5_NoEmptyStringField ==
  Returned => \A f \in TextFields : LastResult.header[f] # Some(<< >>)

NameLikeAddress(a) == Truthy(a) /\ is_likely_customer_name(a.v)

\* C8: when no customer name was extracted and the extracted address is
\* name-like, the result has that string as customer_name and a null
\* address.
C8_NameLikeAddressBecomesName ==
  (Returned /\ ~IsBlank(text) /\ ~Truthy(KeptCustomerName) /\ NameLikeAddress(FoundAddress))
    => /\ LastResult.header.customer_name = FoundAddress
       /\ LastResult.header.address = None

C8_Witness ==
  /\ Returned
  /\ text = Chars("Address: ACME LTD")
  /\ RawCustomerName = None
  /\ LastResult.header.customer_name = Some(Chars("ACME LTD"))
  /\ LastResult.header.address = None

AddressLikeName(n) ==
  Truthy(n) /\ is_likely_address(n.v) /\ ~is_likely_customer_name(n.v)

\* C9: when the value extracted for the customer name is address-like and
\* no address was extracted, the result has that value as address and a
\* null customer_name.
C9_AddressLikeNameBecomesAddress ==
  (Returned /\ ~IsBlank(text) /\ AddressLikeName(RawCustomerName) /\ ~Truthy(FoundAddress))
    => /\ LastResult.header.address = RawCustomerName
       /\ LastResult.header.customer_name = None

(***************************************************************************)
(* Successive calls                                                        *)
(***************************************************************************)
MaxCalls == 3

CallTexts ==
  { Chars("Tel: 12345\nItem Qty Value\nBolt 2 300"),
    Chars("VAT: 5\nItem Qty Value\nNut 4 80\nWasher 7"),
    Chars(" ") }

\* one to MaxCalls calls of parse_invoice_data, in every order
CallSeqs == SeqsUpTo({ ParseCall(t) : t \in CallTexts }, MaxCalls)

InitCalls == InitWith(BaseCalls \cup CallSeqs)
SpecCalls == InitCalls /\ [][Next]_vars

\* every request is a direct call of parse_invoice_data, so that the k-th
\* result is the result of the k-th request
OnlyParseCalls == \A k \in 1..Len(requests) : requests[k].entry = "parse"

MaxRows == 2

\* an amount line, the table header and one to MaxRows rows
TaxLines  == { Chars("VAT: ,"), Chars("VAT: 5") }
TableHead == Chars("Item Qty Value")
RowLines  == { Chars("Bolt 2 300"), Chars("Nut , 5"), Chars("150"), Chars("Total: 9") }

TableTexts ==
  { Join(<< tax, TableHead >> \o rows, NL) :
      tax \in TaxLines, rows \in SeqsUpTo(RowLines, MaxRows) }

\* the amount line whose located string "," is no decimal, and the row whose
\* token "," is no float
FailingLines == { Chars("VAT: ,"), Chars("Nut , 5") }

\* the text with the failing lines emptied: every other line keeps its
\* content and its line number
Blanked(t) ==
  Join([ i \in 1..Len(SplitOn(t, NL)) |->
           IF SplitOn(t, NL)[i] \in FailingLines THEN << >> ELSE SplitOn(t, NL)[i] ], NL)

HasLine(t, l) == \E i \in 1..Len(SplitOn(t, NL)) : SplitOn(t, NL)[i] = l

\* each text is parsed, and then the same text without its failing lines
IsolationCalls == { << ParseCall(t), ParseCall(Blanked(t)) >> : t \in TableTexts }

InitIsolation == InitWith(BaseCalls \cup IsolationCalls)
SpecIsolation == InitIsolation /\ [][Next]_vars

BothParsed == pc = "next" /\ call = 2 /\ OnlyParseCalls

RowTokens ==
  { Chars("12"), Chars("1,500"), Chars("2.5"), Chars("1500000"),
    Chars("0.00001"), Chars("0.00002"), Chars("10000000000000000") }

\* the table header and the row "Widget a b"
RowText(a, b) == Chars("Item Qty Value\nWidget ") \o a \o Chars(" ") \o b

\* the row with its tokens in one order, then in the other
RowCalls ==
  { << ParseCall(RowText(a, b)), ParseCall(RowText(b, a)) >> : a, b \in RowTokens }

InitRows == InitWith(BaseCalls \cup RowCalls)
SpecRows == InitRows /\ [][Next]_vars

TokenValue(tok) == FloatOf(RemoveAll(tok, ","))
FloatMin(a, b) == IF FloatLess(b, a) THEN b ELSE a
FloatMaxOf(a, b) == IF FloatLess(a, b) THEN b ELSE a

\* the decimal d is the number f
DecimalIsFloat(d, f) ==
  /\ d.some /\ ~d.neg
  /\ DropTrailingZeros(DropLeadingZeros(d.coef)) = f.d
  /\ (FloatIsZero(f) \/ Len(DropLeadingZeros(d.coef)) + d.exp = f.p)

\* the one item of the result has qty = min(a, b), an int when integral,
\* and value = max(a, b)
MinMaxItem(r, a, b) ==
  /\ Len(r.items) = 1
  /\ r.items[1].qty = IntIfIntegral(FloatMin(TokenValue(a), TokenValue(b)))
  /\ DecimalIsFloat(r.items[1].value, FloatMaxOf(TokenValue(a), TokenValue(b)))

\* C10: a row with exactly two numeric tokens a and b gives an item with
\* qty = min(a, b) and value = max(a, b), and the row with the tokens in
\* the other order gives the same qty and value.
C10_TwoTokensMinMax ==
  (Returned /\ request.entry = "parse") =>
    \A a, b \in RowTokens :
      /\ text = RowText(a, b) => MinMaxItem(LastResult, a, b)
      /\ (call = 2 /\ requests[1].text = RowText(a, b) /\ text = RowText(b, a))
           => /\ results[1].items[1].qty = results[2].items[1].qty
              /\ results[1].items[1].value = results[2].items[1].value

(***************************************************************************)
(* The end of the table                                                    *)
(***************************************************************************)
TerminalRowLines ==
  { Chars("Bolt 2 300"), Chars("Total: 9"), Chars("Payment 5 cash"), Chars("150") }

\* the table header and one to MaxRows lines after it
TerminalTexts ==
  { Join(<< TableHead >> \o rows, NL) : rows \in SeqsUpTo(TerminalRowLines, MaxRows) }

\* the line matches a terminal keyword (the pattern of line 486)
IsTerminalLine(l) == ReSearch(TotalsSectionRe, Strip(l), FlagsI).ok

\* the lines of ls from line i on, up to the first terminal line, excluded
RECURSIVE UpToTerminal(_, _)
UpToTerminal(ls, i) ==
  IF i > Len(ls) \/ IsTerminalLine(ls[i]) THEN << >>
  ELSE << ls[i] >> \o UpToTerminal(ls, i + 1)

\* the text cut before the first terminal line that follows the header
\* (the header is the first line of these texts)
CutAtTerminal(t) ==
  Join(<< SplitOn(t, NL)[1] >> \o UpToTerminal(SplitOn(t, NL), 2), NL)

\* each text is parsed, and then the text cut at its terminal line
TerminalCalls == { << ParseCall(t), ParseCall(CutAtTerminal(t)) >> : t \in TerminalTexts }

InitTerminal == InitWith(BaseCalls \cup TerminalCalls)
SpecTerminal == InitTerminal /\ [][Next]_vars

\* C11: the items of a text are the items of the text cut before the first
\* line after the table header that matches a terminal keyword: that line
\* and the lines after it add no item and change no item.
C11_TerminalLineEndsTable ==
  (BothParsed /\ requests[2].text = CutAtTerminal(requests[1].text))
    => results[1].items = results[2].items

(***************************************************************************)
(* Continuation lines                                                      *)
(***************************************************************************)
GoodRowLines == { Chars("Bolt 2 300"), Chars("Nut 4 80") }

\* the table header and one to MaxRows rows, each giving an item
GoodTableTexts ==
  { Join(<< TableHead >> \o rows, NL) : rows \in SeqsUpTo(GoodRowLines, MaxRows) }

\* lines with leading whitespace that do not start with a number
ContinuationLines == { Chars("  heavy duty"), Chars("\tgrade 8 steel") }

\* each table is parsed, and then the table followed by a continuation line
ContinuationCalls ==
  { << ParseCall(t), ParseCall(t \o NL \o c) >> :
      t \in GoodTableTexts, c \in ContinuationLines }

InitContinuation == InitWith(BaseCalls \cup ContinuationCalls)
SpecContinuation == InitContinuation /\ [][Next]_vars

LastItem(r) == r.items[Len(r.items)]

\* C12: a continuation line after the rows of a table adds no item, and
\* its text is appended to the description of the last item.
C12_ContinuationAppends ==
  BothParsed =>
    \A c \in ContinuationLines :
      (requests[2].text = requests[1].text \o NL \o c /\ Len(results[1].items) > 0)
        => /\ Len(results[2].items) = Len(results[1].items)
           /\ LastItem(results[2]).description
                = LastItem(results[1]).description \o Chars(" ") \o Strip(c)

(***************************************************************************)
(* The rows of a table                                                     *)
(***************************************************************************)
MaxTableRows == 2

\* rows with a unit, with a value of 0, without a value (the value
\* '2e-05' is no decimal), and lines of numbers only
TableRowLines ==
  { Chars("Bolt 2 300"), Chars("Nut kg 4 80"), Chars("Widget 0"),
    Chars("Washer 0.00001 0.00002"), Chars("150"), Chars("0 , 7") }

\* the table header and one to MaxTableRows lines after it
RowTableTexts ==
  { Join(<< TableHead >> \o rows, NL) : rows \in SeqsUpTo(TableRowLines, MaxTableRows) }

InitTable == InitWith(BaseCalls \cup { << ParseCall(t) >> : t \in RowTableTexts })
SpecTable == InitTable /\ [][Next]_vars

\* the item a, its value apart, is the item b
SameButValue(a, b) == [a EXCEPT !.value = b.value] = b

\* the line the loop of line 464 is about to process
CurrentLine == Strip(lines[idx + 1])

\* one step of the loop keeps the items emitted so far, in their order,
\* and adds at most one item, made from the current line, at the end
StepKeepsItems ==
  /\ Len(loop'.items) \in { Len(loop.items), Len(loop.items) + 1 }
  /\ \A k \in 1..Len(loop.items) : SameButValue(loop.items[k], loop'.items[k])
  /\ Len(loop'.items) = Len(loop.items) + 1
       => loop'.items[Len(loop'.items)]
            = BuildItem(CurrentLine, TextParts(CurrentLine),
                        ReFindAll(NumberRe, CurrentLine, Flags0)).item

\* C13: the items are in document order: a line of the table adds at most
\* one item, made from that line alone, after the items of the earlier
\* lines, and removes or reorders none of them.
C13_ItemsInDocumentOrder == [][pc = "items" => StepKeepsItems]_vars

C13_Witness ==
  /\ Returned
  /\ text = Chars("Item Qty Value\nBolt 2 300\nNut kg 4 80")
  /\ Len(LastResult.items) = 2
  /\ LastResult.items[1].description = Chars("Bolt")
  /\ LastResult.items[2].description = Chars("Nut")

(***************************************************************************)
(* The preview                                                             *)
(***************************************************************************)
PreviewAmountLines == { Chars("Total: 0"), Chars("Total: 9"), Chars("VAT: ,") }

\* an amount line followed by a table
PreviewTexts == { a \o NL \o t : a \in PreviewAmountLines, t \in RowTableTexts }

InitPreview == InitWith(BaseCalls \cup { << PreviewCall(t) >> : t \in PreviewTexts })
SpecPreview == InitPreview /\ [][Next]_vars

LastResponse == responses[Len(responses)]

\* api_extract_invoice_preview has answered with extracted data
PreviewAnswered ==
  /\ pc = "next" /\ request.entry = "preview"
  /\ Len(responses) > 0 /\ LastResponse.success

\* C14: in the preview, an amount of the header or a value of an item that
\* extraction did not find is null, not 0.
C14_PreviewKeepsNull ==
  PreviewAnswered =>
    /\ \A f \in AmountFields :
         LastOut.header[f] = NoDecimal => LastResponse.header[f] = JsonNull
    /\ \A i \in 1..Len(LastOut.items) :
         LastOut.items[i].value = NoDecimal => LastResponse.items[i].value = JsonNull

(***************************************************************************)
(* Rows with three numeric tokens                                          *)
(***************************************************************************)
RoleTokens == { Chars("5"), Chars("3"), Chars("500"), Chars("1200"), Chars("0.5") }

\* the table header and the row "Widget a b c"
RoleText(a, b, c) ==
  Chars("Item Qty Value\nWidget ") \o a \o Chars(" ") \o b \o Chars(" ") \o c

InitRoles == InitWith(BaseCalls \cup { << ParseCall(RoleText(a, b, c)) >> : a, b, c \in RoleTokens })
SpecRoles == InitRoles /\ [][Next]_vars

\* the token is integral or within 0.1 of an integer, lies in (0, 1000) and
\* is strictly less than a hundredth of the maximum
QualifiesAsQty(f, max_num) ==
  /\ IntegerLike(f)
  /\ ~FloatIsZero(f) /\ f.p <= 3
  /\ FloatLess(f, DivHundred(max_num))

\* the first token that qualifies, or the default 1
RECURSIVE FirstQualifying(_, _, _)
FirstQualifying(fs, i, max_num) ==
  IF i > Len(fs) THEN QtyOne
  ELSE IF QualifiesAsQty(fs[i], max_num) THEN RoundToInt(fs[i])
  ELSE FirstQualifying(fs, i + 1, max_num)

ThreeTokens(a, b, c) == << TokenValue(a), TokenValue(b), TokenValue(c) >>

\* C15: a row with three numeric tokens gives an item whose value is the
\* maximum token and whose qty is the first token that is integer-like, in
\* (0, 1000) and strictly less than a hundredth of the maximum, or 1 when
\* there is none.
C15_ThreeTokenRoles ==
  (Returned /\ request.entry = "parse") =>
    \A a, b, c \in RoleTokens :
      text = RoleText(a, b, c) =>
        /\ Len(LastResult.items) = 1
        /\ DecimalIsFloat(LastResult.items[1].value, FloatMax(ThreeTokens(a, b, c)))
        /\ LastResult.items[1].qty
             = FirstQualifying(ThreeTokens(a, b, c), 1, FloatMax(ThreeTokens(a, b, c)))

(***************************************************************************)
(* Units                                                                   *)
(***************************************************************************)
UnitWords ==
  { Chars("kg"), Chars("Pcs"), Chars("NOS"), Chars("set"), Chars("Sets"), Chars("unit"),
    Chars("piece"), Chars("box"), Chars("each"), Chars("kit") }

\* the table header and the row "Bolt <word> 2 300"
UnitText(w) == Chars("Item Qty Value\nBolt ") \o w \o Chars(" 2 300")

InitUnits == InitWith(BaseCalls \cup { << ParseCall(UnitText(w)) >> : w \in UnitWords })
SpecUnits == InitUnits /\ [][Next]_vars

\* the closed set of unit codes
UnitCodes ==
  { Chars("NOS"), Chars("PCS"), Chars("KG"), Chars("HR"), Chars("LTR"), Chars("PIECES"),
    Chars("UNITS"), Chars("BOX"), Chars("CASE"), Chars("SETS"), Chars("PC"), Chars("KIT") }

\* C16: the unit of every emitted item is null or one of the unit codes.
C16_UnitInClosedSet ==
  Returned =>
    \A i \in 1..Len(LastResult.items) :
      LastResult.items[i].unit = None \/ LastResult.items[i].unit.v \in UnitCodes

\* the current line consists of numeric tokens only
NumbersOnlyLine ==
  /\ idx < Len(lines)
  /\ Len(TextParts(CurrentLine)) = 0
  /\ Len(ReFindAll(NumberRe, CurrentLine, Flags0)) > 0

\* C17: a line of numeric tokens only creates no item, and changes
\* nothing when there is no item or when the last item has a value, a value
\* of 0 included; otherwise it changes the value of the last item only.
C17_NumbersOnlyLine ==
  [][(pc = "items" /\ NumbersOnlyLine) =>
       /\ Len(loop'.items) = Len(loop.items)
       /\ \A k \in 1..Len(loop.items) : SameButValue(loop.items[k], loop'.items[k])
       /\ \A k \in 1..Len(loop.items) :
            (k < Len(loop.items) \/ loop.items[k].value.some)
              => loop'.items[k] = loop.items[k]]_vars

(***************************************************************************)
(* Phone                                                                   *)
(***************************************************************************)
PhoneSegments   == { Chars("123"), Chars("12345"), Chars("456789"), Chars("Fax") }
PhoneSeparators == { Chars("/"), Chars(" / "), Chars(" ") }

\* "Tel: <segment><separator><segment>"
PhoneTexts ==
  { Chars("Tel: ") \o a \o sep \o b :
      a \in PhoneSegments, b \in PhoneSegments, sep \in PhoneSeparators }

InitPhone == InitWith(BaseCalls \cup { << ParseCall(t) >> : t \in PhoneTexts })
SpecPhone == InitPhone /\ [][Next]_vars

\* s holds at least five consecutive digits
HasFiveDigitRun(s) ==
  \E i \in 1..(Len(s) - 4) : \A j \in i..(i + 4) : s[j] \in DigitCh

\* C18: a phone that is not null holds a run of at least five consecutive
\* digits and no '/'.
C18_PhoneHasFiveDigits ==
  (Returned /\ LastResult.header.phone.some) =>
    /\ HasFiveDigitRun(LastResult.header.phone.v)
    /\ "/" \notin Range(LastResult.header.phone.v)

(***************************************************************************)
(* Payment method                                                          *)
(***************************************************************************)
PaymentValues ==
  { Chars("Cash"), Chars("cheque cash"), Chars("CHQ 5"), Chars("Bank"), Chars("credit card"),
    Chars("Mpesa"), Chars("COD"), Chars("later"), Chars("Delivery"), Chars("predelivery"),
    Chars("x") }

PaymentTexts == { Chars("Payment: ") \o v : v \in PaymentValues }

InitPayment == InitWith(BaseCalls \cup { << ParseCall(t) >> : t \in PaymentTexts })
SpecPayment == InitPayment /\ [][Next]_vars

\* lines 414 on the text of the call: the payment text extracted
RawPayment == extract_field_value(PaymentPatterns, Strip(text))

\* C19: the payment method is the value of the first key of the mapping,
\* in its fixed order, that occurs in the extracted payment text without
\* regard to case, and the extracted text itself when no key occurs.
C19_PaymentCanonical ==
  (Returned /\ ~IsBlank(text) /\ Truthy(RawPayment))
    => LastResult.header.payment_method = Some(MapPayment(RawPayment.v, 1))

(***************************************************************************)
(* The values of extract_field_value                                       *)
(***************************************************************************)
ValueLabels == { Chars("Attended By: "), Chars("Attended By "), Chars("Attended By\n") }
ValueBodies ==
  { Chars("John Smith"), Chars("John   Smith"), Chars("John Smith Tel 12345"),
    Chars("John Smith  Date 1/2/24"), Chars("john\tsmith"), Chars("12 Main Tel 555") }

ValueTexts == { l \o b : l \in ValueLabels, b \in ValueBodies }

InitValues == InitWith(BaseCalls \cup { << ParseCall(t) >> : t \in ValueTexts })
SpecValues == InitValues /\ [][Next]_vars

\* the header fields that are the value of extract_field_value as it is
PlainFields == { "code_no", "reference", "invoice_no", "attended_by", "kind_attention" }

\* no two whitespace characters in a row
NoWhitespaceRun(s) == \A i \in 1..(Len(s) - 1) : ~(s[i] \in SpaceCh /\ s[i + 1] \in SpaceCh)

\* no trailing fragment that starts with a label keyword (the stoplist of
\* line 151)
NoTrailingLabel(s) == ~ReSearch(TrailingLabels1, s, FlagsI).ok

\* C20: a value returned by extract_field_value has no trailing fragment
\* starting with a label keyword and no run of two or more whitespace
\* characters.
C20_ValuesAreFiltered ==
  Returned =>
    \A f \in PlainFields :
      LastResult.header[f].some
        => /\ NoTrailingLabel(LastResult.header[f].v)
           /\ NoWhitespaceRun(LastResult.header[f].v)

(***************************************************************************)
(* Punctuation in the description of a row                                 *)
(***************************************************************************)
CommaDescriptions ==
  { Chars("Bolt steel"), Chars("Bolt, steel"), Chars("Bolt , steel"), Chars("Bolt,steel"),
    Chars("Bolt. steel"), Chars("Bolt") }

\* the table header and the row "<description> 2 5000"
CommaText(d) == Chars("Item Qty Value\n") \o d \o Chars(" 2 5000")

InitComma == InitWith(BaseCalls \cup { << ParseCall(CommaText(d)) >> : d \in CommaDescriptions })
SpecComma == InitComma /\ [][Next]_vars

HasDigit(s) == \E i \in 1..Len(s) : s[i] \in DigitCh

\* the numeric tokens of the line the loop is about to process (line 492)
CurrentNumbers == ReFindAll(NumberRe, CurrentLine, Flags0)

\* C21: every numeric token of a row holds a digit, and the row
\* "<description> 2 5000" gives one item with qty 2 and value 5000, with
\* or without a comma in the description.
C21_CommaIsNoToken ==
  /\ (pc = "items" /\ idx < Len(lines))
       => \A k \in 1..Len(CurrentNumbers) : HasDigit(CurrentNumbers[k])
  /\ (Returned /\ request.entry = "parse") =>
       \A d \in CommaDescriptions :
         text = CommaText(d) =>
           /\ Len(LastResult.items) = 1
           /\ LastResult.items[1].qty = Qty(TRUE, FloatOf(Chars("2")))
           /\ DecimalIsFloat(LastResult.items[1].value, FloatOf(Chars("5000")))

(***************************************************************************)
(* The order of the search for an amount                                   *)
(***************************************************************************)
\* lines with the label VAT in the colon, equals and space forms, with the
\* label and no amount on its line, a bare amount, the second label of the
\* list, and amounts that are no number
OrderLines ==
  { Chars("VAT: 5"), Chars("VAT = 6"), Chars("VAT 7"), Chars("VAT x"), Chars("8"),
    Chars("Tax: 9"), Chars("VAT: ,"), Chars("GST = .") }

\* one line, or two lines
OrderTexts == OrderLines \cup { a \o NL \o b : a, b \in OrderLines }

InitOrder == InitWith(BaseCalls \cup { << ParseCall(t) >> : t \in OrderTexts })
SpecOrder == InitOrder /\ [][Next]_vars

\* what one form finds for one label pattern: 1 colon, 2 equals, 3 space,
\* 4 the scan of the label's line and the two lines after it
FormFinds(pattern, form, t) ==
  IF form = 4 THEN AmountByLines(pattern, SplitOn(t, NL), 1)
  ELSE LetIn(ReSearch(CASE form = 1 -> AmountColonRe(pattern)
                        [] form = 2 -> AmountEqualsRe(pattern)
                        [] form = 3 -> AmountSpaceRe(pattern), t, FlagsIM), LAMBDA m :
         IF m.ok THEN Some(Group1(t, m)) ELSE None)

\* attempt n of the search: label pattern after label pattern, and for each
\* pattern form after form
Attempt(patterns, n, t) == FormFinds(patterns[((n - 1) \div 4) + 1], ((n - 1) % 4) + 1, t)

\* the string of the first attempt that finds one
FirstFound(patterns, t) ==
  IF \A n \in 1..(4 * Len(patterns)) : ~Attempt(patterns, n, t).some THEN None
  ELSE Attempt(patterns,
               CHOOSE n \in 1..(4 * Len(patterns)) :
                 /\ Attempt(patterns, n, t).some
                 /\ \A k \in 1..(n - 1) : ~Attempt(patterns, k, t).some,
               t)

\* C22: the string located for an amount is the one of the first attempt
\* that finds a numeric string, the label patterns taken in list order and
\* for each the colon, equals and space forms and then the scan by lines;
\* the amount is that string parsed, null when it is no number, whatever
\* a later form or a later label would give.
C22_FirstFoundWins ==
  AmountsDone =>
    /\ located.tax = FirstFound(TaxPatterns, normalized_text)
    /\ hdr.tax = to_decimal(located.tax)
    /\ (located.tax.some /\ NoDigitIn(located.tax.v)) => hdr.tax = NoDecimal

\* the colon form wins over the equals form earlier in the text, and its
\* malformed string gives null though "VAT = 6" holds a valid amount
C22_Witness ==
  /\ AmountsDone
  /\ normalized_text = Chars("VAT = 6\nVAT: ,")
  /\ located.tax = Some(Chars(","))
  /\ hdr.tax = NoDecimal
  /\ FormFinds(TaxPatterns[1], 2, normalized_text) = Some(Chars("6"))

(***************************************************************************)
(* The address and the lines after it                                      *)
(***************************************************************************)
AddressHeads == { Chars("Address:"), Chars("Address: 12 Main St"), Chars("Address") }

\* a line of 150 characters
LongLine == [ i \in 1..150 |-> "1" ]

AddressTails ==
  { Chars("Dar 5"), Chars("Tel: 12345"), Chars("Near Tel tower"), Chars("Invoice No: 5"),
    LongLine }

\* an Address line followed by up to two lines, and one followed by five
AddressTexts ==
  AddressHeads
    \cup { Join(<< h >> \o tl, NL) : h \in AddressHeads, tl \in SeqsUpTo(AddressTails, 2) }
    \cup { Chars("Address: 1 A St\nb 2\nc 3\nd 4\ne 5\nf 6") }

InitAddress == InitWith(BaseCalls \cup { << ParseCall(t) >> : t \in AddressTexts })
SpecAddress == InitAddress /\ [][Next]_vars

\* the line starts like a label: "Word(s) :" or "Word(s) =", or a known
\* field label
IsLabelLike(l) ==
  \/ ReMatch(AddressLabelRe, l, FlagsI).ok
  \/ ReMatch(AddressKnownLabelRe, l, FlagsI).ok

\* s without its first n characters
DropFirst(s, n) == IF n >= Len(s) THEN << >> ELSE SubSeq(s, n + 1, Len(s))

\* the value on the line "Address<separator><value>": what follows the
\* word, the whitespace and the separator ':' or '='
LabelLineValue(line) ==
  LetIn(Strip(DropFirst(line, 7)), LAMBDA rest :
    IF Len(rest) > 0 /\ rest[1] \in {":", "="} THEN Strip(DropFirst(rest, 1)) ELSE rest)

\* the lines after line i, four at most, up to the first label-like line,
\* the lines of 150 characters or more left out
RECURSIVE FollowingLines(_, _, _)
FollowingLines(cl, i, j) ==
  IF j > 4 \/ i + j > Len(cl) THEN << >>
  ELSE IF IsLabelLike(cl[i + j]) THEN << >>
  ELSE (IF Len(cl[i + j]) < 150 THEN << cl[i + j] >> ELSE << >>)
         \o FollowingLines(cl, i, j + 1)

\* the parts of the address for the Address line i
AddressParts(cl, i) ==
  (IF Len(LabelLineValue(cl[i])) > 0 THEN << LabelLineValue(cl[i]) >> ELSE << >>)
    \o FollowingLines(cl, i, 1)

\* the address the first line of these texts gives: its parts joined by
\* single spaces, a trailing fragment that starts with a label keyword
\* removed; None when there is no part
AddressOfFirstLine(cl) ==
  IF Len(AddressParts(cl, 1)) = 0 THEN None
  ELSE Some(Strip(ReSubEmpty(AddressNoiseRe, Join(AddressParts(cl, 1), Chars(" ")), FlagsI)))

\* C23: the address is the value on the Address line followed, in order and
\* joined by single spaces, by the lines after it: four at most, none of
\* 150 characters or more, none at or after the first label-like line.
C23_AddressFromFollowingLines ==
  (pc = "swap" /\ text \in AddressTexts) => hdr.address = AddressOfFirstLine(cleaned_lines)

(***************************************************************************)
(* The table header                                                        *)
(***************************************************************************)
\* a header, a header with numbers on it, a row and a line of numbers
HeaderLines ==
  { Chars("Item Qty Value"), Chars("Item Qty Value 2 300"), Chars("Bolt 2 300"),
    Chars("150") }

\* one to three of these lines
HeaderTexts == { Join(ls, NL) : ls \in SeqsUpTo(HeaderLines, 3) }

InitHeader == InitWith(BaseCalls \cup { << ParseCall(t) >> : t \in HeaderTexts })
SpecHeader == InitHeader /\ [][Next]_vars

\* the line holds at least 3 of the 6 keyword classes
IsHeaderLine(l) == keyword_count(Strip(l)) >= 3

\* none of the first n lines is a header line
NoHeaderIn(n) == \A k \in 1..n : ~IsHeaderLine(lines[k])

\* C24: a line at or before the first header line, or any line when there
\* is no header line, leaves the items as they are (empty), and so does a
\* header line wherever it stands.
C24_HeaderGivesNoItem ==
  [][(pc = "items" /\ idx < Len(lines))
       => /\ NoHeaderIn(idx) => loop.items = << >>
          /\ (NoHeaderIn(idx) \/ IsHeaderLine(lines[idx + 1])) => loop'.items = loop.items]_vars

C24_Witness ==
  /\ Returned
  /\ text = Chars("Bolt 2 300\nItem Qty Value 2 300\nBolt 2 300")
  /\ Len(LastResult.items) = 1
  /\ LastResult.items[1].description = Chars("Bolt")

(***************************************************************************)
(* What an emitted item holds                                              *)
(***************************************************************************)
\* a word of 260 characters
LongWord == [ i \in 1..260 |-> "x" ]

\* rows whose description is a unit word only, rows with a unit, rows whose
\* numbers are all 0, and rows with a description of more than 255
\* characters, without and with a unit
ContentRowLines ==
  { Chars("kg 2 300"), Chars("Bolt kg 2 300"), Chars("pc 5"), Chars("Widget 0"),
    Chars("Widget 0 0"), Chars("Pcs. 3 40"), Chars("kg kg 3 40"), Chars("Bolt 0 0 0"),
    LongWord \o Chars(" 2 300"), Chars("a kg ") \o LongWord \o Chars(" 2 300") }

\* the table header and one or two of these rows
ContentTexts == { Join(<< TableHead >> \o rows, NL) : rows \in SeqsUpTo(ContentRowLines, 2) }

InitContent == InitWith(BaseCalls \cup { << ParseCall(t) >> : t \in ContentTexts })
SpecContent == InitContent /\ [][Next]_vars

\* the item has a description of 1 to 255 characters and a value or a
\* quantity
ItemHasContent(item) ==
  /\ Len(item.description) > 0
  /\ Len(item.description) <= 255
  /\ (DecTruthy(item.value) \/ QtyTruthy(item.qty))

\* the description of a row: the line without its numeric tokens and
\* without its unit word
RowDescription(line) ==
  LetIn(ReSearch(UnitRe, line, FlagsI), LAMBDA unit_match :
    Strip(IF unit_match.ok
          THEN ReSubEmpty(UnitWordRe(Group1(line, unit_match)),
                          ReSub(NumberRe, Chars(" "), line, Flags0), FlagsI)
          ELSE ReSub(NumberRe, Chars(" "), line, Flags0)))

\* C25: every item, in the loop and in the result, has a description of 1
\* to 255 characters and a value or a quantity, and a row whose description
\* is empty once the numbers and the unit are removed adds no item.
C25_ItemsHaveContent ==
  /\ pc = "items" => \A k \in 1..Len(loop.items) : ItemHasContent(loop.items[k])
  /\ Returned => \A k \in 1..Len(LastResult.items) : ItemHasContent(LastResult.items[k])
  /\ (Returned /\ Len(lines) = 2 /\ Len(RowDescription(lines[2])) = 0)
       => LastResult.items = << >>

C25_Witness ==
  /\ Returned
  /\ text = Chars("Item Qty Value\nkg 2 300\n") \o LongWord \o Chars(" 2 300")
  /\ Len(LastResult.items) = 1
  /\ Len(LastResult.items[1].description) = 255

(***************************************************************************)
(* The code of an item                                                     *)
(***************************************************************************)
\* three Arabic-Indic digits, "123" written outside ASCII
ArabicCode == << "U+0661", "U+0662", "U+0663" >>

\* code-like tokens: ASCII digits alone, after a letter, too many of them,
\* digits outside ASCII alone, and after ASCII digits
CodeTokens ==
  { Chars("123"), Chars("A123"), Chars("1234567"), ArabicCode, Chars("12") \o ArabicCode,
    Chars("x") \o ArabicCode }

\* the table header and a row with the token before or after the word
CodeTexts ==
  { Chars("Item Qty Value\nBolt ") \o c \o Chars(" 2 300") : c \in CodeTokens }
    \cup { Chars("Item Qty Value\n") \o c \o Chars(" Bolt 2 300") : c \in CodeTokens }

InitCode == InitWith(BaseCalls \cup { << ParseCall(t) >> : t \in CodeTexts })
SpecCode == InitCode /\ [][Next]_vars

\* the string holds no digit outside ASCII
OnlyAsciiDigits(s) == \A i \in 1..Len(s) : s[i] \notin ArabicIndicCh

PassTexts ==
  PaymentTexts \cup ValueTexts
    \cup { Chars("Delivery: 3 days"), Chars("Remarks: fragile"), Chars("Kind Attn: Mr X"),
           Chars("Invoice No: 77\nTotal: 9\nPayment: Cash\nRemarks: fragile") }

InitPass ==
  InitWith(BaseCalls \cup { << PdfCall(t) >> : t \in PassTexts }
                     \cup { << PreviewCall(t) >> : t \in PassTexts })
SpecPass == InitPass /\ [][Next]_vars

\* extract_from_bytes has returned a successful result in the call in
\* progress
BytesSucceeded ==
  /\ pc \in { "next", "preview" }
  /\ request.entry \in { "bytes", "preview" }
  /\ request.file.uploaded
  /\ Len(outs) > 0 /\ LastOut.success

\* the field is resolved in the parser's output
Resolved(r, f) == r.header[f] # NullHeader[f]

\* C27: every header field the parser resolved is in the header of the
\* successful result of extract_from_bytes, with the same value.
C27_HeaderPassesThrough ==
  BytesSucceeded =>
    \A f \in DOMAIN NullHeader :
      Resolved(LastResult, f)
        => (f \in DOMAIN LastOut.header /\ LastOut.header[f] = LastResult.header[f])

(***************************************************************************)
(* The outcomes of extract_from_bytes                                      *)
(***************************************************************************)
\* every file: empty or not, with the name of a PDF, of an image or of
\* something else, with or without the PDF magic number, each library
\* reading it, failing on it or absent, and a text layer that is empty,
\* blank or a document
FileRecords ==
  [ uploaded  : { TRUE },
    empty     : BOOLEAN,
    ext       : { "pdf", "png", "txt" },
    magic_pdf : BOOLEAN,
    fitz      : { "ok", "fails", "absent" },
    pypdf2    : { "ok", "fails", "absent" },
    doc_text  : { << >>, Chars("  "), Chars("Tel: 12345") } ]

\* extract_from_bytes(file_bytes, filename)
BytesCall(file) == [entry |-> "bytes", text |-> << >>, file |-> file, post |-> NoPost]

InitOutcomes == InitWith(BaseCalls \cup { << BytesCall(file) >> : file \in FileRecords })
SpecOutcomes == InitOutcomes /\ [][Next]_vars

ErrorCodes ==
  { "empty_file", "pdf_extraction_failed", "image_file_not_supported",
    "unsupported_file_type", "parsing_failed", "no_text_extracted" }

\* the file is a PDF by its name or by its first bytes, and a library read
\* a text layer that is not empty
PdfWithText(file) ==
  /\ ~file.empty
  /\ (file.ext = "pdf" \/ file.magic_pdf)
  /\ (file.fitz = "ok" \/ file.pypdf2 = "ok")
  /\ Len(file.doc_text) > 0

\* C28: extract_from_bytes returns success only for a PDF whose text was
\* extracted, not empty, and parsed without an exception; every other
\* result has success false, one of the six error codes, an empty header
\* and no items; raw_text is not empty only on success or parsing_failed.
C28_OutcomesOfExtraction ==
  BytesReturned =>
    /\ Len(outs) > 0
    /\ LastOut.success => (PdfWithText(request.file) /\ ~raised)
    /\ ~LastOut.success
         => /\ LastOut.error \in ErrorCodes
            /\ LastOut.header = << >>
            /\ LastOut.items = << >>
    /\ Len(LastOut.raw_text) > 0 => (LastOut.success \/ LastOut.error = "parsing_failed")

C28_Witness ==
  /\ BytesReturned
  /\ request.file.ext = "pdf" /\ request.file.fitz = "fails" /\ request.file.pypdf2 = "absent"
  /\ ~request.file.empty
  /\ ~LastOut.success
  /\ LastOut.error = "pdf_extraction_failed"

(***************************************************************************)
(* The transaction of api_create_invoice_from_upload                       *)
(***************************************************************************)
\* forms without and with a name, a phone, a plate and a selected order,
\* with a subtotal that is or is not a number, and without or with line
\* items: a good one, one without description, one with a qty that is no
\* integer
Posts ==
  [ customer_name     : { << >>, Chars("Acme Ltd") },
    customer_phone    : { Chars("  "), Chars("0712345678") },
    plate             : { << >>, Chars("t123abc") },
    selected_order_id : { << >>, Chars("7") },
    subtotal          : { Chars("1,000"), Chars("abc") },
    tax_amount        : { Chars("180") },
    total_amount      : { << >> },
    items             : { << >>,
                          << [description |-> Chars("Bolt"), qty |-> Chars("2"),
                              price |-> Chars("500")],
                             [description |-> Chars(" "), qty |-> Chars("1"),
                              price |-> Chars("1")],
                             [description |-> Chars("Nut"), qty |-> Chars("x"),
                              price |-> Chars("1")] >> } ]

InitCreate == InitWith(BaseCalls \cup { << CreateCall(p) >> : p \in Posts })
SpecCreate == InitCreate /\ [][Next]_vars

\* api_create_invoice_from_upload has answered in the call in progress
CreateAnswered ==
  /\ pc = "next" /\ request.entry = "create"
  /\ Len(responses) > 0

\* C29: when api_create_invoice_from_upload answers with success False, no
\* record created during the request is in the database.
C29_FailureLeavesNoRecord ==
  (CreateAnswered /\ ~LastResponse.success) => \A r \in db : r.by # call

(***************************************************************************)
(* The amounts of process_uploaded_invoice_file                            *)
(***************************************************************************)
\* a keyword of one of the three patterns, or a word that is none, then
\* what follows it
OcrKeywords ==
  { Chars("Subtotal"), Chars("Net Value"), Chars("Net"), Chars("VAT"), Chars("Tax"),
    Chars("Sales Tax"), Chars("Total"), Chars("Gross Value"), Chars("Paid") }
OcrFollowers ==
  { << >>, Chars(": 500"), Chars(" 1,250.50"), Chars(":\n18"), Chars(": n/a") }
OcrTexts == { << >> } \cup { k \o f : k \in OcrKeywords, f \in OcrFollowers }

\* uploaded files: an image, a PDF, a file of another kind, and no file
OcrFiles ==
  { [NoFile EXCEPT !.uploaded = TRUE, !.ext = "png"],
    [NoFile EXCEPT !.uploaded = TRUE, !.ext = "pdf"],
    [NoFile EXCEPT !.uploaded = TRUE, !.ext = "txt"],
    NoFile }

InitOcr ==
  InitWith(BaseCalls \cup { << [OcrCall(t) EXCEPT !.file = f] >> : t \in OcrTexts, f \in OcrFiles })
SpecOcr == InitOcr /\ [][Next]_vars

\* process_uploaded_invoice_file has returned in the call in progress
OcrReturned == pc = "next" /\ request.entry = "ocr" /\ Len(ocr) > 0
LastOcr     == ocr[Len(ocr)]

\* C30: for every text, _extract_amount returns without raising for each of
\* the three keyword patterns, so process_uploaded_invoice_file answers
\* success True for every uploaded file of a supported format, whether or
\* not a keyword of the text is followed by an amount.
C30_ExtractAmountNeverRaises ==
  (OcrReturned /\ request.file.uploaded /\ request.file.ext \in SupportedExts)
    => LastOcr.success
=============================================================================
